---- MODULE Spec2Model ----
(***************************************************************************)
(* fishy: reconciliation of a declared set of p2panda schemas (schema.toml)*)
(* against the commits of the lock file (schema.lock).                     *)
(*                                                                         *)
(* The model follows `build`: replay the lock file into a fresh in-memory  *)
(* store, materialise the previous schemas, sort the declared schemas      *)
(* topologically, diff, execute the plan depth-first, ask for confirmation *)
(* and append the new commits to the lock file.                            *)
(*                                                                         *)
(* A relation of schema.toml names its schema (RelationId::Name); the      *)
(* store is the MemoryStore of p2panda, modelled by the entries published  *)
(* to it and the documents that follow from them.                          *)
(*                                                                         *)
(* Specifications: Spec, the operator editing schema.toml and running     *)
(* build; SpecTamper, Spec with a lock file that is changed on disk;       *)
(* SpecDeploy, `deploy` of a lock file to a node; SpecExecute,             *)
(* execute_plan publish by publish; SpecProject, Spec from a project that  *)
(* has a lock file already; SpecDiff, get_diff on declarations with        *)
(* relations by schema id; SpecInvalid, Spec with a lock file in which     *)
(* the schema of an operation is changed; SpecInit, `init` called on a     *)
(* directory the operator makes, fills and removes.                        *)
(***************************************************************************)
EXTENDS Integers, Sequences, FiniteSets, TLC

(***************************************************************************)
(* Bounds of the model.                                                    *)
(***************************************************************************)
MaxEdits == 3
MaxFail == 2
MaxInits == 3

(***************************************************************************)
(* Universe of names the operator can type into schema.toml.  The          *)
(* sequences give the lexicographic order BTreeMap iterates in.            *)
(***************************************************************************)
SchemaNameOrder == <<"a", "b", "c">>
FieldNameOrder == <<"x", "y">>
SchemaNames == {SchemaNameOrder[i] : i \in 1..Len(SchemaNameOrder)}
FieldNames == {FieldNameOrder[i] : i \in 1..Len(FieldNameOrder)}
Descriptions == {"d1", "d2"}
FieldType == {"str", "int"}
RelationType == {"relation"}

\* SchemaField of schema_file.rs: a scalar field, or a relation whose
\* RelationId is the name of a schema of the same file.
SchemaField == [type : FieldType, name : {""}] \cup [type : RelationType, name : SchemaNames]

\* A relation whose RelationId is a schema id: the field has the id.
IsExternal(schema_field) == "id" \in DOMAIN schema_field

\* A relation whose RelationId is a name.
IsRelation(schema_field) == schema_field.type \in RelationType /\ ~IsExternal(schema_field)

\* The schema ids a relation of schema.toml is given by: ids of schemas
\* that bear the name of a schema of the file, and one that does not.
ExternalSchemaIds == {[name |-> "a", view |-> 90], [name |-> "b", view |-> 91], [name |-> "e", view |-> 92]}

ExternalSchemaField == [type : RelationType, name : {""}, id : ExternalSchemaIds]

\* Iteration order of the two BTreeMaps of the schema file.
SortedSchemaNames(S) == SelectSeq(SchemaNameOrder, LAMBDA n : n \in S)
SortedFieldNames(S) == SelectSeq(FieldNameOrder, LAMBDA n : n \in S)

\* LET as an operator: F of the value v.
Let(v, F(_)) == F(v)

SeqToSet(s) == {s[i] : i \in 1..Len(s)}

IsPrefix(s, t) == Len(s) <= Len(t) /\ SubSeq(t, 1, Len(s)) = s

(***************************************************************************)
(* Entries, hashes, operations, commits.                                   *)
(*                                                                         *)
(* An entry is identified by its position (log_id, seq_num) in the logs of *)
(* the single author.  Hash is an injective pairing of the two, standing   *)
(* for the content hash of the signed entry; 0 is never a hash.            *)
(***************************************************************************)
Hash(entry) == ((entry.log_id + entry.seq_num) * (entry.log_id + entry.seq_num + 1)) \div 2 + entry.seq_num

NoSchemaId == [name |-> "", view |-> 0]

\* SchemaId::new_application(name, view_id)
new_application(name, view_id) == [name |-> name, view |-> view_id]

\* p2panda field type: a scalar, or a relation carrying the schema id.
PandaFieldType(kind, schema_id) == [kind |-> kind, schema_id |-> schema_id]

NoType == PandaFieldType("", NoSchemaId)

\* An operation of one of the two system schemas.  attrs names the
\* attributes the operation carries; the others hold defaults.
Operation(schema, action, previous, attrs, name, description, fields, type) ==
    [schema |-> schema, action |-> action, previous |-> previous, attrs |-> attrs,
     name |-> name, description |-> description, fields |-> fields, type |-> type]

\* A Commit::new that records the hash of the operation's predecessor,
\* not the hash of the entry.
Commit_new_predecessor(entry, operation) ==
    [entry_hash |-> operation.previous, entry |-> entry, operation |-> operation]

\* Commit::new
Commit_new(entry, operation) ==
    [entry_hash |-> Hash(entry), entry |-> entry, operation |-> operation]

(***************************************************************************)
(* The in-memory store: the published (entry, operation) pairs in the      *)
(* order they were published, and the documents materialised from them.    *)
(***************************************************************************)
StoreHashes(store) == {Hash(store[i].entry) : i \in 1..Len(store)}

StoreIndex(store, h) == CHOOSE i \in 1..Len(store) : Hash(store[i].entry) = h

StoreOperation(store, h) == store[StoreIndex(store, h)].operation

\* Document a view belongs to: the hash of the create operation its chain
\* of predecessors starts with.
RECURSIVE DocumentId(_, _)
DocumentId(store, h) ==
    Let(StoreOperation(store, h), LAMBDA op :
        IF op.action = "create" THEN h ELSE DocumentId(store, op.previous))

\* Document view at a view id: the create operation's attributes overlaid
\* with those of every update up to the view.
RECURSIVE DocumentView(_, _)
DocumentView(store, h) ==
    Let(StoreOperation(store, h), LAMBDA op :
        IF op.action = "create"
        THEN [name |-> op.name, description |-> op.description,
              fields |-> op.fields, type |-> op.type]
        ELSE Let(DocumentView(store, op.previous), LAMBDA base :
                 [name |-> base.name,
                  description |-> IF "description" \in op.attrs THEN op.description ELSE base.description,
                  fields |-> IF "fields" \in op.attrs THEN op.fields ELSE base.fields,
                  type |-> IF "type" \in op.attrs THEN op.type ELSE base.type]))

\* Latest view id of a document: its last published operation.
LatestViewId(store, doc) ==
    Let({i \in 1..Len(store) : DocumentId(store, Hash(store[i].entry)) = doc}, LAMBDA idx :
        Hash(store[CHOOSE i \in idx : \A j \in idx : j <= i].entry))

\* store.get_documents_by_schema: the documents of a system schema, each by
\* the hash of its create operation, in the order of creation.
get_documents_by_schema(store, schema) ==
    LET created == SelectSeq(store, LAMBDA it : it.operation.schema = schema /\ it.operation.action = "create")
    IN  [i \in 1..Len(created) |-> Hash(created[i].entry)]

\* Entry the store signs for an operation (send_to_store): a create opens
\* the author's next log, an update continues the log of its document.
NextEntry(store, operation) ==
    IF operation.action = "create"
    THEN [log_id |-> Cardinality({i \in 1..Len(store) : store[i].operation.action = "create"}),
          seq_num |-> 1]
    ELSE Let(store[StoreIndex(store, operation.previous)].entry.log_id, LAMBDA log :
             [log_id |-> log,
              seq_num |-> Cardinality({i \in 1..Len(store) : store[i].entry.log_id = log}) + 1])

(***************************************************************************)
(* get_previous_schemas: replay of the lock file and materialisation.      *)
(***************************************************************************)
\* The replay loop: every commit is checked against the hash of its entry
\* and published to the store; the first mismatch ends the replay.
\* A replay loop that publishes every commit, whatever hash it records.
RECURSIVE replay_unchecked(_, _, _)
replay_unchecked(store, commits, i) ==
    IF i > Len(commits) THEN [ok |-> TRUE, store |-> store]
    ELSE replay_unchecked(Append(store, [entry |-> commits[i].entry, operation |-> commits[i].operation]),
                          commits, i + 1)

\* The schema ids Schema::get_system knows: version 1 of the two system
\* schemas.
SystemSchemas == {"schema_definition", "schema_field_definition"}

\* A replay loop that takes the schema of an operation as it is.
RECURSIVE replay_any_schema(_, _, _)
replay_any_schema(store, commits, i) ==
    IF i > Len(commits) THEN [ok |-> TRUE, store |-> store]
    ELSE IF commits[i].entry_hash # Hash(commits[i].entry) THEN [ok |-> FALSE, store |-> store]
    ELSE replay_any_schema(Append(store, [entry |-> commits[i].entry, operation |-> commits[i].operation]),
                           commits, i + 1)

RECURSIVE replay(_, _, _)
replay(store, commits, i) ==
    IF i > Len(commits) THEN [ok |-> TRUE, store |-> store]
    ELSE IF commits[i].entry_hash # Hash(commits[i].entry) THEN [ok |-> FALSE, store |-> store]
    ELSE IF commits[i].operation.schema \notin SystemSchemas THEN [ok |-> FALSE, store |-> store]
    ELSE replay(Append(store, [entry |-> commits[i].entry, operation |-> commits[i].operation]), commits, i + 1)

SchemaView(store, view_id) ==
    Let(DocumentView(store, view_id), LAMBDA view :
        [view_id |-> view_id, name |-> view.name, description |-> view.description, fields |-> view.fields])

SchemaFieldView(store, view_id) ==
    Let(DocumentView(store, view_id), LAMBDA view :
        [id |-> view_id, name |-> view.name, field_type |-> view.type])

\* A PreviousSchema::new that has, after the views of the fields the
\* schema view lists, the latest views of the field documents that earlier
\* views of the schema document list and this one does not.
PreviousSchema_orphans(store, schema_view) ==
    Let(SelectSeq(get_documents_by_schema(store, "schema_field_definition"),
                  LAMBDA doc :
                      /\ \E h \in StoreHashes(store) :
                            /\ DocumentId(store, h) = DocumentId(store, schema_view.view_id)
                            /\ \E k \in 1..Len(DocumentView(store, h).fields) :
                                  DocumentId(store, DocumentView(store, h).fields[k]) = doc
                      /\ \A k \in 1..Len(schema_view.fields) : DocumentId(store, schema_view.fields[k]) # doc),
        LAMBDA orphans :
            [schema_view |-> schema_view,
             schema_field_views |->
                 [i \in 1..Len(schema_view.fields) |-> SchemaFieldView(store, schema_view.fields[i])]
                     \o [i \in 1..Len(orphans) |-> SchemaFieldView(store, LatestViewId(store, orphans[i]))]])

\* PreviousSchema::new, without the assembled Schema (only printed).
PreviousSchema(store, schema_view) ==
    [schema_view |-> schema_view,
     schema_field_views |-> [i \in 1..Len(schema_view.fields) |-> SchemaFieldView(store, schema_view.fields[i])]]

\* The loop over the schema definitions: the latest view of each, and the
\* views of its fields; a field that is not in the store is an error.
\* HashMap::insert: a later document of a name replaces an earlier one.
previous_schemas_of(store, views) ==
    IF \E i \in 1..Len(views) : \E k \in 1..Len(views[i].fields) : views[i].fields[k] \notin StoreHashes(store)
    THEN [ok |-> FALSE, store |-> store, previous_schemas |-> <<>>]
    ELSE [ok |-> TRUE, store |-> store,
          previous_schemas |->
              [n \in {views[i].name : i \in 1..Len(views)} |->
                  PreviousSchema(store, views[CHOOSE i \in 1..Len(views) :
                                                /\ views[i].name = n
                                                /\ \A j \in 1..Len(views) : views[j].name = n => j <= i])]]

get_previous_schemas(store, lock_file) ==
    Let(replay(store, lock_file, 1), LAMBDA replayed :
        IF ~replayed.ok
        THEN [ok |-> FALSE, store |-> replayed.store, previous_schemas |-> <<>>]
        ELSE Let(get_documents_by_schema(replayed.store, "schema_definition"), LAMBDA definitions :
                 previous_schemas_of(replayed.store,
                     [i \in 1..Len(definitions) |->
                         SchemaView(replayed.store, LatestViewId(replayed.store, definitions[i]))])))

(***************************************************************************)
(* get_current_schemas: the declared schemas in the order of the file.     *)
(***************************************************************************)
CurrentSchema(name, definition) ==
    [name |-> name, description |-> definition.description, fields |-> definition.fields]

\* A get_current_schemas that takes a schema without fields as it is.
get_current_schemas_unchecked(file) ==
    LET names == SortedSchemaNames(DOMAIN file)
    IN  [ok |-> TRUE, current_schemas |-> [i \in 1..Len(names) |-> CurrentSchema(names[i], file[names[i]])]]

get_current_schemas(file) ==
    LET names == SortedSchemaNames(DOMAIN file)
    IN  IF \E n \in DOMAIN file : DOMAIN file[n].fields = {}
        THEN [ok |-> FALSE, current_schemas |-> <<>>]
        ELSE [ok |-> TRUE, current_schemas |-> [i \in 1..Len(names) |-> CurrentSchema(names[i], file[names[i]])]]

(***************************************************************************)
(* get_diff, first half: the dependency graph and its topological order.   *)
(***************************************************************************)
\* A graph with a dependency for a relation by schema id as well, on the
\* name of the id.
Dependencies_by_id(current_schemas) ==
    UNION {{<<IF IsExternal(current_schemas[i].fields[f]) THEN current_schemas[i].fields[f].id.name
              ELSE current_schemas[i].fields[f].name, current_schemas[i].name>> :
                f \in {g \in DOMAIN current_schemas[i].fields :
                          current_schemas[i].fields[g].type \in RelationType}} :
           i \in 1..Len(current_schemas)}

\* graph.add_dependency(linked_schema, current_schema.name) for every
\* relation field by name: the set of edges <<prec, succ>>.  A set: the
\* crate counts an edge once however often it is added.
Dependencies(current_schemas) ==
    UNION {{<<current_schemas[i].fields[f].name, current_schemas[i].name>> :
                f \in {g \in DOMAIN current_schemas[i].fields : IsRelation(current_schemas[i].fields[g])}} :
           i \in 1..Len(current_schemas)}

\* graph.insert of every declared name; add_dependency also inserts both
\* ends of an edge.
GraphNodes(current_schemas) ==
    {current_schemas[i].name : i \in 1..Len(current_schemas)}
        \cup {e[1] : e \in Dependencies(current_schemas)}

\* graph.pop_all(): the remaining nodes without a remaining predecessor.
pop_all(nodes, edges) == {n \in nodes : ~\E p \in nodes : <<p, n>> \in edges}

\* A sort loop without the bail on a cycle: when nothing pops the loop ends.
RECURSIVE sorted_schemas_unchecked(_, _, _)
sorted_schemas_unchecked(nodes, edges, tie) ==
    Let(pop_all(nodes, edges), LAMBDA next :
        IF next = {} THEN [ok |-> TRUE, sorted |-> <<>>]
        ELSE Let(sorted_schemas_unchecked(nodes \ next, edges, tie), LAMBDA rest :
                 [ok |-> rest.ok, sorted |-> SelectSeq(tie, LAMBDA n : n \in next) \o rest.sorted]))

\* The loop around pop_all.  The crate keeps its nodes in a HashMap, so the
\* nodes of one round come out in an order the run does not control: tie
\* is the order they have in this run.
RECURSIVE sorted_schemas(_, _, _)
sorted_schemas(nodes, edges, tie) ==
    Let(pop_all(nodes, edges), LAMBDA next :
        IF next = {} /\ nodes # {} THEN [ok |-> FALSE, sorted |-> <<>>]
        ELSE IF next = {} THEN [ok |-> TRUE, sorted |-> <<>>]
        ELSE Let(sorted_schemas(nodes \ next, edges, tie), LAMBDA rest :
                 [ok |-> rest.ok, sorted |-> SelectSeq(tie, LAMBDA n : n \in next) \o rest.sorted]))

\* The orders a HashMap can iterate in: every order of all names in which
\* the names of S come as in one of their arrangements.
Ties(S) ==
    {p \o SelectSeq(SchemaNameOrder, LAMBDA n : n \notin S) :
        p \in {q \in [1..Cardinality(S) -> S] : \A n \in S : \E i \in DOMAIN q : q[i] = n}}

\* One tie for every order the sort can come out in: ties that sort the
\* declared schemas alike give the same run.
Orders(current_schemas, S) ==
    Let([t \in Ties(S) |-> sorted_schemas(GraphNodes(current_schemas), Dependencies(current_schemas), t)],
        LAMBDA order : {CHOOSE u \in DOMAIN order : order[u] = order[t] : t \in DOMAIN order})

(***************************************************************************)
(* get_diff, second half: one SchemaDiff per sorted name.  An Option is a  *)
(* sequence of length 0 or 1; a relation field embeds a copy of the diff   *)
(* of its target.                                                          *)
(***************************************************************************)
FieldTypeDiff_Field(field_type) == [tag |-> "Field", type |-> field_type, diff |-> <<>>]

\* A FieldTypeDiff::Relation that embeds the diff of the linked schema
\* without the diffs of its fields.
FieldTypeDiff_Relation_shallow(relation_type, schema_diff) ==
    [tag |-> "Relation", type |-> relation_type, diff |-> <<[schema_diff EXCEPT !.current_fields = <<>>]>>]

FieldTypeDiff_Relation(relation_type, schema_diff) == [tag |-> "Relation", type |-> relation_type, diff |-> <<schema_diff>>]

FieldTypeDiff_ExternalRelation(relation_type, schema_id) ==
    [tag |-> "ExternalRelation", type |-> relation_type, diff |-> <<>>, schema_id |-> schema_id]

FieldDiff(name, previous_field_view, current_field_type) ==
    [name |-> name, previous_field_view |-> previous_field_view, current_field_type |-> current_field_type]

SchemaDiff(name, previous_schema_view, current_description, current_fields) ==
    [name |-> name, previous_schema_view |-> previous_schema_view,
     current_description |-> current_description, current_fields |-> current_fields]

\* iter().find(): the first of the elements with the property, as an
\* Option; hits are the elements with the property.
find(hits) == IF Len(hits) = 0 THEN <<>> ELSE <<hits[1]>>

\* The FieldDiff of one declared field; found is FALSE where the code's
\* expect() on the diff of the linked schema panics.
field_type_diff(current_field, linked) ==
    IF IsExternal(current_field)
    THEN [found |-> TRUE, diff |-> FieldTypeDiff_ExternalRelation(current_field.type, current_field.id)]
    ELSE IF ~IsRelation(current_field)
    THEN [found |-> TRUE, diff |-> FieldTypeDiff_Field(current_field.type)]
    ELSE IF Len(linked) = 0
    THEN [found |-> FALSE, diff |-> FieldTypeDiff_Field("")]
    ELSE [found |-> TRUE, diff |-> FieldTypeDiff_Relation(current_field.type, linked[1])]

field_diff(current_field_name, current_field, previous_schema, schema_diffs) ==
    Let(field_type_diff(current_field, find(SelectSeq(schema_diffs, LAMBDA plan : plan.name = current_field.name))),
        LAMBDA current_field_type :
            [found |-> current_field_type.found,
             diff |-> FieldDiff(current_field_name,
                                IF Len(previous_schema) = 0 THEN <<>>
                                ELSE find(SelectSeq(previous_schema[1].schema_field_views,
                                                    LAMBDA field : field.name = current_field_name)),
                                current_field_type.diff)])

\* The loop over sorted_schemas that fills schema_diffs.
RECURSIVE schema_diffs_loop(_, _, _, _, _)
\* The field diffs of one declared schema, in the order of its BTreeMap.
field_diffs(current_schema, names, previous_schema, schema_diffs) ==
    [k \in 1..Len(names) |->
        field_diff(names[k], current_schema.fields[names[k]], previous_schema, schema_diffs)]

\* A turn of the loop that leaves the previous view of the schema out of
\* the SchemaDiff: the schema is taken as new.
schema_diff_of_new(current_schema, previous_schema, fds) ==
    SchemaDiff(current_schema.name, <<>>, current_schema.description, [k \in 1..Len(fds) |-> fds[k].diff])

\* One turn of the loop: the SchemaDiff of the schema is pushed.
schema_diff_of(current_schema, previous_schema, fds) ==
    SchemaDiff(current_schema.name,
               IF Len(previous_schema) = 0 THEN <<>> ELSE <<previous_schema[1].schema_view>>,
               current_schema.description,
               [k \in 1..Len(fds) |-> fds[k].diff])

schema_diffs_loop(sorted, i, previous_schemas, current_schemas, schema_diffs) ==
    IF i > Len(sorted) THEN [ok |-> TRUE, schema_diffs |-> schema_diffs]
    ELSE
    Let(IF sorted[i] \in DOMAIN previous_schemas THEN <<previous_schemas[sorted[i]]>> ELSE <<>>,
        LAMBDA previous_schema :
    Let(find(SelectSeq(current_schemas, LAMBDA item : item.name = sorted[i])), LAMBDA current_schema :
        IF Len(current_schema) = 0 THEN [ok |-> FALSE, schema_diffs |-> schema_diffs]
        ELSE
        Let(field_diffs(current_schema[1], SortedFieldNames(DOMAIN current_schema[1].fields),
                        previous_schema, schema_diffs),
            LAMBDA fds :
                IF \E k \in 1..Len(fds) : ~fds[k].found THEN [ok |-> FALSE, schema_diffs |-> schema_diffs]
                ELSE schema_diffs_loop(sorted, i + 1, previous_schemas, current_schemas,
                                       Append(schema_diffs, schema_diff_of(current_schema[1], previous_schema, fds))))))

\* A diff_result that returns the diffs against the sorted order.
diff_result_reversed(sorted, schema_diffs) ==
    [i \in 1..Len(sorted) |-> find(SelectSeq(schema_diffs, LAMBDA diff : diff.name = sorted[Len(sorted) + 1 - i]))[1]]

\* The returned list: the diff of every sorted name, in sorted order.
diff_result(sorted, schema_diffs) ==
    [i \in 1..Len(sorted) |-> find(SelectSeq(schema_diffs, LAMBDA diff : diff.name = sorted[i]))[1]]

\* A get_diff that takes a schema that is linked to and not declared as
\* declared, without description and fields.
get_diff_undeclared_implied(previous_schemas, current_schemas, tie) ==
    Let(SortedSchemaNames(GraphNodes(current_schemas)
                              \ {current_schemas[i].name : i \in 1..Len(current_schemas)}), LAMBDA missing :
    Let(current_schemas \o [i \in 1..Len(missing) |->
                               CurrentSchema(missing[i], [description |-> "", fields |-> <<>>])], LAMBDA all :
    Let(sorted_schemas(GraphNodes(all), Dependencies(all), tie), LAMBDA order :
        IF ~order.ok THEN [status |-> "cyclic", diffs |-> <<>>]
        ELSE Let(schema_diffs_loop(order.sorted, 1, previous_schemas, all, <<>>), LAMBDA built :
                 IF ~built.ok THEN [status |-> "panic", diffs |-> <<>>]
                 ELSE [status |-> "ok", diffs |-> diff_result(order.sorted, built.schema_diffs)]))))

\* status: "ok", "cyclic" (the bail of the sort loop) or "panic" (an
\* expect() on a schema that was not declared).
get_diff(previous_schemas, current_schemas, tie) ==
    Let(sorted_schemas(GraphNodes(current_schemas), Dependencies(current_schemas), tie), LAMBDA order :
        IF ~order.ok THEN [status |-> "cyclic", diffs |-> <<>>]
        ELSE Let(schema_diffs_loop(order.sorted, 1, previous_schemas, current_schemas, <<>>), LAMBDA built :
                 IF ~built.ok THEN [status |-> "panic", diffs |-> <<>>]
                 ELSE [status |-> "ok", diffs |-> diff_result(order.sorted, built.schema_diffs)]))

(***************************************************************************)
(* The executor.  ex is the Executor (store, commits, plans) together with *)
(* ok, FALSE once a `?` has returned an error, and fail, the number of the *)
(* publish that the store refuses in this run (0: none).                   *)
(***************************************************************************)
Executor_new(store, fail) ==
    [store |-> store, commits |-> <<>>, plans |-> <<>>, ok |-> TRUE, fail |-> fail]

\* An Executor::commit that puts the commit in front of the earlier ones.
commit_front(ex, operation) ==
    IF ex.fail = 1
    THEN [ex |-> [ex EXCEPT !.ok = FALSE], id |-> 0]
    ELSE Let(NextEntry(ex.store, operation), LAMBDA entry :
             [ex |-> [ex EXCEPT !.store = Append(@, [entry |-> entry, operation |-> operation]),
                                !.commits = <<Commit_new(entry, operation)>> \o @,
                                !.fail = IF @ = 0 THEN 0 ELSE @ - 1],
              id |-> Hash(entry)])

\* An Executor::commit that puts the commit before the last one pushed.
commit_before_last(ex, operation) ==
    IF ex.fail = 1
    THEN [ex |-> [ex EXCEPT !.ok = FALSE], id |-> 0]
    ELSE Let(NextEntry(ex.store, operation), LAMBDA entry :
             [ex |-> [ex EXCEPT !.store = Append(@, [entry |-> entry, operation |-> operation]),
                                !.commits = IF Len(@) = 0 THEN <<Commit_new(entry, operation)>>
                                            ELSE SubSeq(@, 1, Len(@) - 1)
                                                     \o <<Commit_new(entry, operation), @[Len(@)]>>,
                                !.fail = IF @ = 0 THEN 0 ELSE @ - 1],
              id |-> Hash(entry)])

\* Executor::commit: publish to the store, then push the commit; id is the
\* hash of the entry.
commit(ex, operation) ==
    IF ex.fail = 1
    THEN [ex |-> [ex EXCEPT !.ok = FALSE], id |-> 0]
    ELSE Let(NextEntry(ex.store, operation), LAMBDA entry :
             [ex |-> [ex EXCEPT !.store = Append(@, [entry |-> entry, operation |-> operation]),
                                !.commits = Append(@, Commit_new(entry, operation)),
                                !.fail = IF @ = 0 THEN 0 ELSE @ - 1],
              id |-> Hash(entry)])

Plan_new(schema_id, diff) == [schema_id |-> schema_id, schema_diff |-> diff]

\* A schema_operation that compares the description only: a change of the
\* list of fields alone asks for no operation.
schema_operation_description_only(self, field_view_ids) ==
    IF Len(self.previous_schema_view) = 1
    THEN IF self.current_description # self.previous_schema_view[1].description
         THEN <<Operation("schema_definition", "update", self.previous_schema_view[1].view_id,
                          {"description", "fields"}, "", self.current_description, field_view_ids, NoType)>>
         ELSE <<>>
    ELSE <<Operation("schema_definition", "create", 0, {"name", "description", "fields"},
                     self.name, self.current_description, field_view_ids, NoType)>>

\* A schema_operation that compares the number of fields with the number
\* the previous view lists, not the ids: a field with a new view asks for
\* no operation on the schema.
schema_operation_field_count(self, field_view_ids) ==
    IF Len(self.previous_schema_view) = 1
    THEN Let((IF self.current_description # self.previous_schema_view[1].description
              THEN {"description"} ELSE {})
             \cup (IF Len(field_view_ids) # Len(self.previous_schema_view[1].fields) THEN {"fields"} ELSE {}),
             LAMBDA fields :
                 IF fields # {}
                 THEN <<Operation("schema_definition", "update", self.previous_schema_view[1].view_id, fields, "",
                                  IF "description" \in fields THEN self.current_description ELSE "",
                                  IF "fields" \in fields THEN field_view_ids ELSE <<>>, NoType)>>
                 ELSE <<>>)
    ELSE <<Operation("schema_definition", "create", 0, {"name", "description", "fields"},
                     self.name, self.current_description, field_view_ids, NoType)>>

\* A schema_operation whose update carries the description and the list
\* of fields whenever one of the two differs.
schema_operation_whole(self, field_view_ids) ==
    IF Len(self.previous_schema_view) = 1
    THEN IF \/ self.current_description # self.previous_schema_view[1].description
            \/ field_view_ids # self.previous_schema_view[1].fields
         THEN <<Operation("schema_definition", "update", self.previous_schema_view[1].view_id,
                          {"description", "fields"}, "", self.current_description, field_view_ids, NoType)>>
         ELSE <<>>
    ELSE <<Operation("schema_definition", "create", 0, {"name", "description", "fields"},
                     self.name, self.current_description, field_view_ids, NoType)>>

\* The operation a schema diff asks for, as an Option.
schema_operation(self, field_view_ids) ==
    IF Len(self.previous_schema_view) = 1
    THEN Let((IF self.current_description # self.previous_schema_view[1].description
              THEN {"description"} ELSE {})
             \cup (IF field_view_ids # self.previous_schema_view[1].fields THEN {"fields"} ELSE {}),
             LAMBDA fields :
                 IF fields # {}
                 THEN <<Operation("schema_definition", "update", self.previous_schema_view[1].view_id, fields, "",
                                  IF "description" \in fields THEN self.current_description ELSE "",
                                  IF "fields" \in fields THEN field_view_ids ELSE <<>>, NoType)>>
                 ELSE <<>>)
    ELSE <<Operation("schema_definition", "create", 0, {"name", "description", "fields"},
                     self.name, self.current_description, field_view_ids, NoType)>>

\* A field_operation that does not compare the previous field type with the
\* current one: every field that has a previous view is updated.
field_operation_always(self, current_field_type) ==
    IF Len(self.previous_field_view) = 1
    THEN <<Operation("schema_field_definition", "update", self.previous_field_view[1].id, {"type"},
                     "", "", <<>>, current_field_type)>>
    ELSE <<Operation("schema_field_definition", "create", 0, {"name", "type"},
                     self.name, "", <<>>, current_field_type)>>

\* A field_operation that makes a new document for a field whose type has
\* changed, instead of updating the document the field has.
field_operation_recreate(self, current_field_type) ==
    IF Len(self.previous_field_view) = 1 /\ self.previous_field_view[1].field_type = current_field_type
    THEN <<>>
    ELSE <<Operation("schema_field_definition", "create", 0, {"name", "type"},
                     self.name, "", <<>>, current_field_type)>>

\* A field_operation that compares the kind of the field type alone: a
\* relation field whose linked schema has a new id is left as it is.
field_operation_kind_only(self, current_field_type) ==
    IF Len(self.previous_field_view) = 1
    THEN IF self.previous_field_view[1].field_type.kind # current_field_type.kind
         THEN <<Operation("schema_field_definition", "update", self.previous_field_view[1].id, {"type"},
                          "", "", <<>>, current_field_type)>>
         ELSE <<>>
    ELSE <<Operation("schema_field_definition", "create", 0, {"name", "type"},
                     self.name, "", <<>>, current_field_type)>>

\* A field_operation that compares the types of relation fields alone: a
\* field whose previous type is a scalar is left as it is.
field_operation_scalar_kept(self, current_field_type) ==
    IF Len(self.previous_field_view) = 1
    THEN IF /\ self.previous_field_view[1].field_type.kind \in RelationType
            /\ self.previous_field_view[1].field_type # current_field_type
         THEN <<Operation("schema_field_definition", "update", self.previous_field_view[1].id, {"type"},
                          "", "", <<>>, current_field_type)>>
         ELSE <<>>
    ELSE <<Operation("schema_field_definition", "create", 0, {"name", "type"},
                     self.name, "", <<>>, current_field_type)>>

\* The operation a field diff asks for, as an Option.
field_operation(self, current_field_type) ==
    IF Len(self.previous_field_view) = 1
    THEN IF self.previous_field_view[1].field_type # current_field_type
         THEN <<Operation("schema_field_definition", "update", self.previous_field_view[1].id, {"type"},
                          "", "", <<>>, current_field_type)>>
         ELSE <<>>
    ELSE <<Operation("schema_field_definition", "create", 0, {"name", "type"},
                     self.name, "", <<>>, current_field_type)>>

RECURSIVE SchemaDiff_execute(_, _)
RECURSIVE FieldDiff_execute(_, _)
RECURSIVE execute_fields(_, _, _, _)
RECURSIVE execute_field(_, _, _, _)

\* FieldDiff::execute, the id of the schema a relation field links to, when
\* the plans do not hold the schema yet: materialize schema first.
FieldDiff_materialized(self, r) ==
    [ex |-> r.ex, schema_id |-> new_application(self.current_field_type.diff[1].name, r.id)]

\* A FieldDiff::execute that takes the id of a linked schema from the
\* previous view of the schema, where it has one, instead of the plans.
FieldDiff_schema_id_stale(self, ex, schema) ==
    IF Len(self.current_field_type.diff[1].previous_schema_view) = 1
    THEN [ex |-> ex,
          schema_id |-> new_application(self.current_field_type.diff[1].name,
                                        self.current_field_type.diff[1].previous_schema_view[1].view_id)]
    ELSE IF Len(schema) = 1 THEN [ex |-> ex, schema_id |-> schema[1].schema_id]
    ELSE FieldDiff_materialized(self, SchemaDiff_execute(self.current_field_type.diff[1], ex))

\* FieldDiff::execute, the id of the schema a relation field links to;
\* schema is the plan found for the linked diff, as an Option.
FieldDiff_schema_id(self, ex, schema) ==
    IF Len(schema) = 1 THEN [ex |-> ex, schema_id |-> schema[1].schema_id]
    ELSE FieldDiff_materialized(self, SchemaDiff_execute(self.current_field_type.diff[1], ex))

\* A FieldDiff::execute that does not look the linked schema up in the
\* plans: the schema is materialized for every field that links to it.
FieldDiff_type_unmemoized(self, ex) ==
    IF self.current_field_type.tag = "Relation"
    THEN FieldDiff_schema_id(self, ex, <<>>)
    ELSE [ex |-> ex, schema_id |-> NoSchemaId]

\* FieldDiff::execute, the first match: the current field type.
FieldDiff_type(self, ex) ==
    IF self.current_field_type.tag = "Relation"
    THEN FieldDiff_schema_id(self, ex,
                             find(SelectSeq(ex.plans, LAMBDA plan : plan.schema_diff = self.current_field_type.diff[1])))
    ELSE [ex |-> ex, schema_id |-> NoSchemaId]

\* A FieldDiff::execute that commits its operation twice.
FieldDiff_commit_twice(self, ex, operation) ==
    IF Len(operation) = 1
    THEN Let(commit(ex, operation[1]), LAMBDA first :
             IF first.ex.ok THEN commit(first.ex, operation[1]) ELSE first)
    ELSE [ex |-> ex, id |-> self.previous_field_view[1].id]

\* FieldDiff::execute, the last match: commit the operation, or return the
\* id of the previous view.
FieldDiff_commit(self, ex, operation) ==
    IF Len(operation) = 1 THEN commit(ex, operation[1])
    ELSE [ex |-> ex, id |-> self.previous_field_view[1].id]

\* FieldDiff::execute from the resolved type on.
FieldDiff_operation(self, resolved) ==
    IF ~resolved.ex.ok THEN [ex |-> resolved.ex, id |-> 0]
    ELSE FieldDiff_commit(self, resolved.ex,
                          field_operation(self, PandaFieldType(self.current_field_type.type, resolved.schema_id)))

\* impl Executable for FieldDiff
FieldDiff_execute(self, ex) == FieldDiff_operation(self, FieldDiff_type(self, ex))

\* A turn of the loop that pushes the id of the previous view of a field
\* that has one, whatever the field diff returned.
execute_field_previous(fields, i, r, field_view_ids) ==
    execute_fields(fields, i + 1, r.ex,
                   Append(field_view_ids,
                          IF r.ex.ok /\ Len(fields[i].previous_field_view) = 1
                          THEN fields[i].previous_field_view[1].id ELSE r.id))

\* One turn of the loop over current_fields: the id is pushed.
execute_field(fields, i, r, field_view_ids) ==
    execute_fields(fields, i + 1, r.ex, Append(field_view_ids, r.id))

\* The loop over current_fields at the head of SchemaDiff::execute.
execute_fields(fields, i, ex, field_view_ids) ==
    IF ~ex.ok \/ i > Len(fields) THEN [ex |-> ex, field_view_ids |-> field_view_ids]
    ELSE execute_field(fields, i, FieldDiff_execute(fields[i], ex), field_view_ids)

\* A SchemaDiff::execute that derives the schema id of the plan from the
\* previous view of the schema, where it has one.
SchemaDiff_plan_previous(self, r) ==
    IF ~r.ex.ok THEN [ex |-> r.ex, id |-> 0]
    ELSE [ex |-> [r.ex EXCEPT !.plans =
                     Append(@, Plan_new(new_application(self.name,
                                                        IF Len(self.previous_schema_view) = 1
                                                        THEN self.previous_schema_view[1].view_id
                                                        ELSE r.id), self))],
          id |-> r.id]

\* SchemaDiff::execute, the end: the plan of the schema is pushed.
SchemaDiff_plan(self, r) ==
    IF ~r.ex.ok THEN [ex |-> r.ex, id |-> 0]
    ELSE [ex |-> [r.ex EXCEPT !.plans = Append(@, Plan_new(new_application(self.name, r.id), self))],
          id |-> r.id]

\* SchemaDiff::execute, the view id: commit the operation, or return the
\* id of the previous view.
SchemaDiff_commit(self, ex, operation) ==
    IF Len(operation) = 1 THEN commit(ex, operation[1])
    ELSE [ex |-> ex, id |-> self.previous_schema_view[1].view_id]

\* SchemaDiff::execute after the loop over the fields.
SchemaDiff_operation(self, done) ==
    IF ~done.ex.ok THEN [ex |-> done.ex, id |-> 0]
    ELSE SchemaDiff_plan(self, SchemaDiff_commit(self, done.ex, schema_operation(self, done.field_view_ids)))

\* impl Executable for SchemaDiff
SchemaDiff_execute(self, ex) ==
    SchemaDiff_operation(self, execute_fields(self.current_fields, 1, ex, <<>>))

RECURSIVE execute_diffs(_, _, _)
execute_diffs(diffs, i, ex) ==
    IF ~ex.ok \/ i > Len(diffs) THEN ex
    ELSE execute_diffs(diffs, i + 1, SchemaDiff_execute(diffs[i], ex).ex)

\* An execute_plan that ends with a delete of the first schema document
\* of the store whose name has no diff.
execute_plan_tombstone(store, diffs, fail) ==
    Let(execute_diffs(diffs, 1, Executor_new(store, fail)), LAMBDA ex :
    Let(SelectSeq(get_documents_by_schema(store, "schema_definition"),
                  LAMBDA doc : \A i \in 1..Len(diffs) : diffs[i].name # DocumentView(store, doc).name),
        LAMBDA gone :
            IF ~ex.ok \/ Len(gone) = 0 THEN ex
            ELSE commit(ex, Operation("schema_definition", "delete", LatestViewId(store, gone[1]),
                                      {}, "", "", <<>>, NoType)).ex))

\* The loop over the diffs, on a new Executor.
execute_plan(store, diffs, fail) == execute_diffs(diffs, 1, Executor_new(store, fail))

(***************************************************************************)
(* write_to_lock_file and build.                                           *)
(***************************************************************************)
\* A write_to_lock_file that writes the new commits alone.
write_to_lock_file_replace(new_commits, lock_file) == new_commits

\* The commits of the regenerated lock file.
write_to_lock_file(new_commits, lock_file) == lock_file \o new_commits

\* A tail of build that writes whatever the answer to the prompt is.
build_confirm_writes(commits, lock_file, only_show_plan_and_exit, confirm) ==
    IF only_show_plan_and_exit
    THEN [outcome |-> "inspected", asked |-> FALSE, lock_file |-> lock_file]
    ELSE IF commits = <<>>
    THEN [outcome |-> "no_changes", asked |-> FALSE, lock_file |-> lock_file]
    ELSE [outcome |-> IF confirm THEN "written" ELSE "aborted", asked |-> TRUE,
          lock_file |-> write_to_lock_file(commits, lock_file)]

\* A tail of build that writes the commits in inspect mode as well, once
\* the plan is shown.
build_confirm_inspect_writes(commits, lock_file, only_show_plan_and_exit, confirm) ==
    IF only_show_plan_and_exit
    THEN [outcome |-> "inspected", asked |-> FALSE, lock_file |-> write_to_lock_file(commits, lock_file)]
    ELSE IF commits = <<>>
    THEN [outcome |-> "no_changes", asked |-> FALSE, lock_file |-> lock_file]
    ELSE IF confirm
    THEN [outcome |-> "written", asked |-> TRUE, lock_file |-> write_to_lock_file(commits, lock_file)]
    ELSE [outcome |-> "aborted", asked |-> TRUE, lock_file |-> lock_file]

\* The tail of build: inspect mode, nothing to commit, the confirmation.
build_confirm(commits, lock_file, only_show_plan_and_exit, confirm) ==
    IF only_show_plan_and_exit
    THEN [outcome |-> "inspected", asked |-> FALSE, lock_file |-> lock_file]
    ELSE IF commits = <<>>
    THEN [outcome |-> "no_changes", asked |-> FALSE, lock_file |-> lock_file]
    ELSE IF confirm
    THEN [outcome |-> "written", asked |-> TRUE, lock_file |-> write_to_lock_file(commits, lock_file)]
    ELSE [outcome |-> "aborted", asked |-> TRUE, lock_file |-> lock_file]

\* What a run leaves behind.  store is the in-memory store at the end of
\* the run; lock_file the commits of the lock file after it.
Run(outcome, file, before, after, previous_schemas, diffs, commits, plans, store, executed, confirmed) ==
    [outcome |-> outcome, schema_file |-> file, before |-> before, lock_file |-> after,
     previous_schemas |-> previous_schemas, diffs |-> diffs, commits |-> commits, plans |-> plans,
     store |-> store, executed |-> executed, confirmed |-> confirmed]

\* A run that ended with an error before execute_plan.
Failed(outcome, file, lock_file, previous_schemas, store) ==
    Run(outcome, file, lock_file, lock_file, previous_schemas, <<>>, <<>>, <<>>, store, FALSE, FALSE)

\* build up to get_current_schemas: the files are loaded, the lock file is
\* replayed into the fresh store of main.
build_load(file, commits) ==
    IF DOMAIN file = {}
    THEN [status |-> "empty_schema_file", store |-> <<>>, previous_schemas |-> <<>>, current_schemas |-> <<>>]
    ELSE
    Let(get_previous_schemas(<<>>, commits), LAMBDA previous :
        IF ~previous.ok
        THEN [status |-> "invalid_lock_file", store |-> previous.store, previous_schemas |-> <<>>, current_schemas |-> <<>>]
        ELSE
        Let(get_current_schemas(file), LAMBDA current :
            IF ~current.ok
            THEN [status |-> "no_fields", store |-> previous.store,
                  previous_schemas |-> previous.previous_schemas, current_schemas |-> <<>>]
            ELSE [status |-> "ok", store |-> previous.store,
                  previous_schemas |-> previous.previous_schemas, current_schemas |-> current.current_schemas]))

\* build from get_diff to execute_plan.
build_execute(loaded, tie, fail) ==
    IF loaded.status # "ok" THEN [status |-> loaded.status, diffs |-> <<>>, ex |-> Executor_new(loaded.store, 0)]
    ELSE
    Let(get_diff(loaded.previous_schemas, loaded.current_schemas, tie), LAMBDA diff :
        IF diff.status # "ok" THEN [status |-> diff.status, diffs |-> <<>>, ex |-> Executor_new(loaded.store, 0)]
        ELSE
        Let(execute_plan(loaded.store, diff.diffs, fail), LAMBDA ex :
            [status |-> IF ex.ok THEN "ok" ELSE "storage_failure", diffs |-> diff.diffs, ex |-> ex]))

\* A build that writes the commits generated before a failure of
\* execute_plan, and then returns the error.
build_end_partial(loaded, executed, file, commits, only_show_plan_and_exit, confirm) ==
    IF executed.status = "storage_failure"
    THEN Run("storage_failure", file, commits, write_to_lock_file(executed.ex.commits, commits),
             loaded.previous_schemas, executed.diffs,
             executed.ex.commits, executed.ex.plans, executed.ex.store, TRUE, FALSE)
    ELSE IF executed.status # "ok"
    THEN Failed(executed.status, file, commits, loaded.previous_schemas, loaded.store)
    ELSE Let(build_confirm(executed.ex.commits, commits, only_show_plan_and_exit, confirm), LAMBDA end :
             Run(end.outcome, file, commits, end.lock_file, loaded.previous_schemas, executed.diffs,
                 executed.ex.commits, executed.ex.plans, executed.ex.store, TRUE, end.asked /\ confirm))

\* The whole of build, from the loaded files and the executed plan.
build_end(loaded, executed, file, commits, only_show_plan_and_exit, confirm) ==
    IF executed.status = "storage_failure"
    THEN Run("storage_failure", file, commits, commits, loaded.previous_schemas, executed.diffs,
             executed.ex.commits, executed.ex.plans, executed.ex.store, TRUE, FALSE)
    ELSE IF executed.status # "ok"
    THEN Failed(executed.status, file, commits, loaded.previous_schemas, loaded.store)
    ELSE Let(build_confirm(executed.ex.commits, commits, only_show_plan_and_exit, confirm), LAMBDA end :
             Run(end.outcome, file, commits, end.lock_file, loaded.previous_schemas, executed.diffs,
                 executed.ex.commits, executed.ex.plans, executed.ex.store, TRUE, end.asked /\ confirm))

build(file, commits, only_show_plan_and_exit, confirm, tie, fail) ==
    Let(build_load(file, commits), LAMBDA loaded :
        build_end(loaded, build_execute(loaded, tie, fail), file, commits, only_show_plan_and_exit, confirm))

(***************************************************************************)
(* The state: the two files of the project, and what the last run of       *)
(* `fishy build` on the present schema.toml did; prior is the outcome of   *)
(* the run before it on the same schema.toml.  edits counts the edits of   *)
(* schema.toml.                                                            *)
(***************************************************************************)
VARIABLES schema_file, lock_file, last, prior, edits, deployment, execution, target_dir

vars == <<schema_file, lock_file, last, prior, edits, deployment, execution, target_dir>>

\* No run of build since schema.toml was last edited.
NoRun == Failed("none", <<>>, <<>>, <<>>, <<>>)

\* execute_plan not entered.
NoExecution == [pc |-> "none", operations |-> <<>>, in_flight |-> {}, store |-> <<>>, commits |-> <<>>]

\* No call of `fishy init`.
NoInit == [outcome |-> "none",
           schema_name |-> [tag |-> "None", name |-> ""],
           before |-> [exists |-> FALSE, entries |-> <<>>],
           after |-> [exists |-> FALSE, entries |-> <<>>]]

\* The target directory of init is not there.
NoTargetDir == [exists |-> FALSE, entries |-> <<>>, calls |-> 0, run |-> NoInit]

\* No run of `fishy deploy`.
NoDeployment == [status |-> "none", commits |-> <<>>, i |-> 0, skipped |-> 0, node |-> <<>>, handled |-> <<>>]

Init ==
    /\ schema_file = <<>>
    /\ lock_file = <<>>
    /\ last = NoRun
    /\ prior = "none"
    /\ edits = 0
    /\ deployment = NoDeployment
    /\ execution = NoExecution
    /\ target_dir = NoTargetDir

\* Field definitions the operator writes when a schema is added.
NewFieldTypes == [type : {"str"}, name : {""}] \cup [type : {"relation"}, name : SchemaNames]

\* The operator edits schema.toml: a new schema with one field.
AddSchema ==
    /\ edits < MaxEdits
    /\ \E n \in SchemaNames \ DOMAIN schema_file, t \in NewFieldTypes :
          schema_file' = [m \in DOMAIN schema_file \cup {n} |->
                            IF m = n THEN [description |-> "d1", fields |-> [f \in {"x"} |-> t]]
                            ELSE schema_file[m]]
    /\ edits' = edits + 1
    /\ last' = NoRun
    /\ prior' = "none"
    /\ UNCHANGED <<lock_file, deployment, execution, target_dir>>

\* The operator edits schema.toml: a new schema with two relation fields,
\* to two different schemas.
AddLinkedSchema ==
    /\ edits < MaxEdits
    /\ \E n \in SchemaNames \ DOMAIN schema_file, m \in SchemaNames \X SchemaNames :
          /\ m[1] # m[2]
          /\ schema_file' = [k \in DOMAIN schema_file \cup {n} |->
                                IF k = n
                                THEN [description |-> "d1",
                                      fields |-> [f \in FieldNames |->
                                                    [type |-> "relation",
                                                     name |-> IF f = "x" THEN m[1] ELSE m[2]]]]
                                ELSE schema_file[k]]
    /\ edits' = edits + 1
    /\ last' = NoRun
    /\ prior' = "none"
    /\ UNCHANGED <<lock_file, deployment, execution, target_dir>>

\* The operator removes a schema from schema.toml.
RemoveSchema ==
    /\ edits < MaxEdits
    /\ \E n \in DOMAIN schema_file :
          schema_file' = [m \in DOMAIN schema_file \ {n} |-> schema_file[m]]
    /\ edits' = edits + 1
    /\ last' = NoRun
    /\ prior' = "none"
    /\ UNCHANGED <<lock_file, deployment, execution, target_dir>>

\* The operator rewrites the description of a schema.
EditDescription ==
    /\ edits < MaxEdits
    /\ \E n \in DOMAIN schema_file, d \in Descriptions :
          /\ d # schema_file[n].description
          /\ schema_file' = [schema_file EXCEPT ![n].description = d]
    /\ edits' = edits + 1
    /\ last' = NoRun
    /\ prior' = "none"
    /\ UNCHANGED <<lock_file, deployment, execution, target_dir>>

\* The operator adds a field to a schema or changes the type of one.
SetField ==
    /\ edits < MaxEdits
    /\ \E n \in DOMAIN schema_file, f \in FieldNames, t \in SchemaField :
          /\ f \in DOMAIN schema_file[n].fields => schema_file[n].fields[f] # t
          /\ schema_file' = [schema_file EXCEPT ![n].fields =
                                [g \in DOMAIN schema_file[n].fields \cup {f} |->
                                    IF g = f THEN t ELSE schema_file[n].fields[g]]]
    /\ edits' = edits + 1
    /\ last' = NoRun
    /\ prior' = "none"
    /\ UNCHANGED <<lock_file, deployment, execution, target_dir>>

\* The operator removes a field from a schema.
RemoveField ==
    /\ edits < MaxEdits
    /\ \E n \in DOMAIN schema_file, f \in FieldNames :
          /\ f \in DOMAIN schema_file[n].fields
          /\ schema_file' = [schema_file EXCEPT ![n].fields =
                                [g \in DOMAIN schema_file[n].fields \ {f} |-> schema_file[n].fields[g]]]
    /\ edits' = edits + 1
    /\ last' = NoRun
    /\ prior' = "none"
    /\ UNCHANGED <<lock_file, deployment, execution, target_dir>>

\* One run of `fishy build`.  A run that left the lock file as it was is
\* not repeated on the same schema.toml: it would be the same run again.
Build ==
    /\ last.outcome \in {"none", "written"}
    /\ Let(build_load(schema_file, lock_file), LAMBDA loaded :
         \E tie \in Orders(loaded.current_schemas, DOMAIN schema_file), fail \in 0..MaxFail :
            Let(build_execute(loaded, tie, fail), LAMBDA executed :
              \E only_show_plan_and_exit \in BOOLEAN, confirm \in BOOLEAN :
                 Let(build_end(loaded, executed, schema_file, lock_file, only_show_plan_and_exit, confirm),
                     LAMBDA run : last' = run /\ lock_file' = run.lock_file)))
    /\ prior' = last.outcome
    /\ UNCHANGED <<schema_file, edits, deployment, execution, target_dir>>

Next ==
    \/ AddSchema
    \/ AddLinkedSchema
    \/ RemoveSchema
    \/ EditDescription
    \/ SetField
    \/ RemoveField
    \/ Build

Spec == Init /\ [][Next]_vars

(***************************************************************************)
(* The lock file is a file of the project: what build loads is what the    *)
(* file holds, whoever wrote it.  SpecTamper adds the step in which the    *)
(* entry hash recorded with a commit is changed in the file.               *)
(***************************************************************************)
TamperLockFile ==
    /\ edits < MaxEdits
    /\ \E i \in 1..Len(lock_file) : \E entry_hash \in {0, lock_file[i].entry_hash + 1} :
          /\ lock_file[i].entry_hash = Hash(lock_file[i].entry)
          /\ lock_file' = [lock_file EXCEPT ![i].entry_hash = entry_hash]
    /\ edits' = edits + 1
    /\ last' = NoRun
    /\ prior' = "none"
    /\ UNCHANGED <<schema_file, deployment, execution, target_dir>>

NextTamper ==
    \/ Next
    \/ TamperLockFile

SpecTamper == Init /\ [][NextTamper]_vars

(***************************************************************************)
(* SpecInvalid adds the step in which the operation recorded with a commit *)
(* is changed in the file to one of another schema: an unknown version of  *)
(* a system schema, or a schema that is not a system schema.               *)
(***************************************************************************)
InvalidSchemas == {"schema_definition_v2", "schema_field_definition_v2", "application"}

TamperOperation ==
    /\ edits < MaxEdits
    /\ \E i \in 1..Len(lock_file), schema \in InvalidSchemas :
          /\ lock_file[i].operation.schema \in SystemSchemas
          /\ lock_file' = [lock_file EXCEPT ![i].operation.schema = schema]
    /\ edits' = edits + 1
    /\ last' = NoRun
    /\ prior' = "none"
    /\ UNCHANGED <<schema_file, deployment, execution, target_dir>>

NextInvalid ==
    \/ Next
    \/ TamperOperation

SpecInvalid == Init /\ [][NextInvalid]_vars

(***************************************************************************)
(* `fishy deploy`: the commits of the lock file are sent to a node, one    *)
(* after the other.  The node is not part of the program: what it answers  *)
(* to the nextArgs query and whether it takes a publish are inputs of each *)
(* turn of the loop.  deployment.node holds the commits the node has taken *)
(* in this deployment, deployment.handled what was done with each commit.  *)
(***************************************************************************)
\* Bounds of the answers of the node: the largest log id, and how far the
\* next sequence number of the node is ahead of the entry asked about.
MaxLogId == 2
MaxAhead == 2

\* The lock files deploy is run on: none, the lock file after a first
\* build of one schema, and after a second build that updates the schema.
DeployFile(description) ==
    [n \in {"a"} |-> [description |-> description, fields |-> [f \in {"x"} |-> [type |-> "str", name |-> ""]]]]

DeployLedgers ==
    Let(build(DeployFile("d1"), <<>>, FALSE, TRUE, SchemaNameOrder, 0).lock_file, LAMBDA first :
        {<<>>, first, build(DeployFile("d2"), first, FALSE, TRUE, SchemaNameOrder, 0).lock_file})

\* NextArgsResponse as the client gets it: an error, or the next arguments.
NoResponse == [ok |-> FALSE, log_id |-> 0, seq_num |-> 1, backlink |-> <<>>]

Responses(local, commits) ==
    {NoResponse} \cup
        [ok : {TRUE}, log_id : 0..MaxLogId, seq_num : 1..(local.entry.seq_num + MaxAhead),
         backlink : {<<>>} \cup {<<commits[k].entry_hash>> : k \in 1..Len(commits)}]

\* A turn of the loop that looks at the sequence number first: a commit
\* the node is ahead of is skipped, whatever log and backlink it names.
deploy_commit_lenient(local, response, published) ==
    IF response.ok /\ local.entry.seq_num < response.seq_num
    THEN "skipped"
    ELSE IF response.ok /\ (local.entry.log_id # response.log_id \/ <<local.entry_hash>> # response.backlink)
    THEN "inconsistent"
    ELSE IF published THEN "published"
    ELSE "request_failed"

\* A turn of the loop that skips a commit when the nextArgs query for it
\* has failed.
deploy_commit_query_needed(local, response, published) ==
    IF ~response.ok
    THEN "skipped"
    ELSE IF local.entry.log_id # response.log_id \/ <<local.entry_hash>> # response.backlink
    THEN "inconsistent"
    ELSE IF local.entry.seq_num < response.seq_num
    THEN "skipped"
    ELSE IF published THEN "published"
    ELSE "request_failed"

\* One turn of the loop over the commits, as a result: "inconsistent" and
\* "request_failed" are the two errors deploy returns with.
deploy_commit(local, response, published) ==
    IF response.ok /\ (local.entry.log_id # response.log_id \/ <<local.entry_hash>> # response.backlink)
    THEN "inconsistent"
    ELSE IF response.ok /\ local.entry.seq_num < response.seq_num
    THEN "skipped"
    ELSE IF published THEN "published"
    ELSE "request_failed"

InitDeploy ==
    /\ schema_file = <<>>
    /\ lock_file \in DeployLedgers
    /\ last = NoRun
    /\ prior = "none"
    /\ edits = 0
    /\ deployment = NoDeployment
    /\ execution = NoExecution
    /\ target_dir = NoTargetDir

\* deploy up to the loop: the lock file is loaded; without commits deploy
\* returns an error.
DeployLoad ==
    /\ deployment.status = "none"
    /\ deployment' = [deployment EXCEPT !.status = IF lock_file = <<>> THEN "no_data" ELSE "running",
                                        !.commits = lock_file,
                                        !.i = 1]
    /\ UNCHANGED <<schema_file, lock_file, last, prior, edits, execution, target_dir>>

\* A loop that goes on with the next commit when a publish request has
\* failed.
DeployCommit_continue ==
    /\ deployment.status = "running"
    /\ \E response \in Responses(deployment.commits[deployment.i], deployment.commits), published \in BOOLEAN :
          Let(deploy_commit(deployment.commits[deployment.i], response, published), LAMBDA result :
              deployment' =
                  [deployment EXCEPT
                      !.status = IF result = "inconsistent" THEN result
                                 ELSE IF deployment.i = Len(deployment.commits) THEN "done"
                                 ELSE "running",
                      !.i = IF result = "inconsistent" THEN @ ELSE @ + 1,
                      !.skipped = IF result = "skipped" THEN @ + 1 ELSE @,
                      !.node = IF result = "published" THEN Append(@, deployment.commits[deployment.i]) ELSE @,
                      !.handled = Append(@, [commit |-> deployment.commits[deployment.i],
                                             response |-> response, result |-> result])])
    /\ UNCHANGED <<schema_file, lock_file, last, prior, edits, execution, target_dir>>

\* One turn of the loop; after the last commit deploy returns Ok.
DeployCommit ==
    /\ deployment.status = "running"
    /\ \E response \in Responses(deployment.commits[deployment.i], deployment.commits), published \in BOOLEAN :
          Let(deploy_commit(deployment.commits[deployment.i], response, published), LAMBDA result :
              deployment' =
                  [deployment EXCEPT
                      !.status = IF result \in {"inconsistent", "request_failed"} THEN result
                                 ELSE IF deployment.i = Len(deployment.commits) THEN "done"
                                 ELSE "running",
                      !.i = IF result \in {"inconsistent", "request_failed"} THEN @ ELSE @ + 1,
                      !.skipped = IF result = "skipped" THEN @ + 1 ELSE @,
                      !.node = IF result = "published" THEN Append(@, deployment.commits[deployment.i]) ELSE @,
                      !.handled = Append(@, [commit |-> deployment.commits[deployment.i],
                                             response |-> response, result |-> result])])
    /\ UNCHANGED <<schema_file, lock_file, last, prior, edits, execution, target_dir>>

NextDeploy ==
    \/ DeployLoad
    \/ DeployCommit

SpecDeploy == InitDeploy /\ [][NextDeploy]_vars

(***************************************************************************)
(* execute_plan step by step: every Executor::commit sends its operation   *)
(* to the store and awaits the answer before it goes on.  The task of      *)
(* build is at execution.pc: "commit" before a send_to_store, "await"      *)
(* while it waits for one.  execution.operations are the commits the run   *)
(* generates, in_flight the publishes sent and not yet answered, store the *)
(* store as the backend shows it, commits the commits pushed so far.       *)
(***************************************************************************)
\* The declarations execute_plan is followed on: one schema, two of which
\* one relates to the other, and three of which one relates to the other
\* two and one of these to the third.
ExecuteFiles ==
    LET scalar == [type |-> "str", name |-> ""]
        relation(n) == [type |-> "relation", name |-> n]
        schema(d, fields) == [description |-> d, fields |-> fields]
    IN  UNION {{[n \in {"a"} |-> schema(d, [f \in {"x"} |-> scalar])],
                [n \in {"a", "b"} |->
                    IF n = "a" THEN schema(d, [f \in {"x"} |-> relation("b")])
                    ELSE schema(d, [f \in {"x"} |-> scalar])],
                [n \in {"a", "b", "c"} |->
                    IF n = "a" THEN schema(d, [f \in FieldNames |-> relation(IF f = "x" THEN "b" ELSE "c")])
                    ELSE IF n = "b" THEN schema(d, [f \in {"x"} |-> relation("c")])
                    ELSE schema(d, [f \in FieldNames |-> scalar])]} : d \in Descriptions}

InitExecute ==
    /\ schema_file \in ExecuteFiles
    /\ lock_file \in DeployLedgers
    /\ last = NoRun
    /\ prior = "none"
    /\ edits = 0
    /\ deployment = NoDeployment
    /\ execution = NoExecution
    /\ target_dir = NoTargetDir

\* build up to execute_plan, and Executor::new.
ExecuteStart ==
    /\ execution.pc = "none"
    /\ Let(build_load(schema_file, lock_file), LAMBDA loaded :
         \E tie \in Orders(loaded.current_schemas, DOMAIN schema_file) :
            Let(build_execute(loaded, tie, 0), LAMBDA executed :
                /\ executed.status = "ok"
                /\ execution' = [execution EXCEPT !.pc = "commit",
                                                  !.operations = executed.ex.commits,
                                                  !.store = loaded.store]))
    /\ UNCHANGED <<schema_file, lock_file, last, prior, edits, deployment, target_dir>>

\* An Executor::commit that does not await send_to_store: the task goes
\* on to the next operation while the publish is in flight.
CommitSend_unawaited ==
    /\ execution.pc = "commit"
    /\ Len(execution.commits) + Cardinality(execution.in_flight) < Len(execution.operations)
    /\ execution' = [execution EXCEPT
                         !.in_flight = @ \cup {Len(execution.commits) + Cardinality(execution.in_flight) + 1}]
    /\ UNCHANGED <<schema_file, lock_file, last, prior, edits, deployment, target_dir>>

\* Executor::commit, send_to_store is called: the publish of the next
\* operation is in flight and the task awaits it.
CommitSend ==
    /\ execution.pc = "commit"
    /\ Len(execution.commits) + Cardinality(execution.in_flight) < Len(execution.operations)
    /\ execution' = [execution EXCEPT
                         !.pc = "await",
                         !.in_flight = @ \cup {Len(execution.commits) + Cardinality(execution.in_flight) + 1}]
    /\ UNCHANGED <<schema_file, lock_file, last, prior, edits, deployment, target_dir>>

\* Executor::commit, send_to_store returns: with the entry, which is in
\* the store, and the commit is pushed; or with an error, which ends
\* execute_plan.
CommitReturn ==
    /\ execution.pc = "await"
    /\ \E k \in execution.in_flight, published \in BOOLEAN :
          execution' =
              IF published
              THEN [execution EXCEPT
                       !.pc = "commit",
                       !.in_flight = @ \ {k},
                       !.store = Append(@, [entry |-> execution.operations[k].entry,
                                            operation |-> execution.operations[k].operation]),
                       !.commits = Append(@, execution.operations[k])]
              ELSE [execution EXCEPT !.pc = "storage_failure", !.in_flight = @ \ {k}]
    /\ UNCHANGED <<schema_file, lock_file, last, prior, edits, deployment, target_dir>>

\* execute_plan returns Ok with the commits and the plans.
ExecuteReturn ==
    /\ execution.pc = "commit"
    /\ Len(execution.commits) = Len(execution.operations)
    /\ execution' = [execution EXCEPT !.pc = "done"]
    /\ UNCHANGED <<schema_file, lock_file, last, prior, edits, deployment, target_dir>>

NextExecute ==
    \/ ExecuteStart
    \/ CommitSend
    \/ CommitReturn
    \/ ExecuteReturn

SpecExecute == InitExecute /\ [][NextExecute]_vars

(***************************************************************************)
(* A project under way: schema.toml and the lock file a run of build has   *)
(* written for it.  SpecProject is Spec from there on.                     *)
(***************************************************************************)
\* The declarations of the projects: three schemas in a chain of
\* relations, and one schema with two scalar fields.
ProjectFiles ==
    LET scalar == [type |-> "str", name |-> ""]
        relation(n) == [type |-> "relation", name |-> n]
        schema(fields) == [description |-> "d1", fields |-> fields]
    IN  {[n \in {"a", "b", "c"} |->
             IF n = "a" THEN schema([f \in {"x"} |-> relation("b")])
             ELSE IF n = "b" THEN schema([f \in {"x"} |-> relation("c")])
             ELSE schema([f \in {"x"} |-> scalar])],
         [n \in {"a"} |-> schema([f \in FieldNames |-> scalar])]}

\* The operator has written the declaration and run build on it, with
\* confirmation; of the edits the model follows, the first is done.
InitProject ==
    /\ schema_file \in ProjectFiles
    /\ lock_file = build(schema_file, <<>>, FALSE, TRUE, SchemaNameOrder, 0).lock_file
    /\ last = NoRun
    /\ prior = "none"
    /\ edits = 1
    /\ deployment = NoDeployment
    /\ execution = NoExecution
    /\ target_dir = NoTargetDir

SpecProject == InitProject /\ [][Next]_vars

(***************************************************************************)
(* get_diff on declarations with relations by schema id.  SpecDiff is      *)
(* build up to get_diff: last holds the diffs, and as its outcome the      *)
(* status of get_diff.                                                     *)
(***************************************************************************)
\* The declarations: schema a, or a and b, each with field x and with or
\* without field y; a field is a scalar, a relation by name or a relation
\* by schema id.
DiffFields ==
    Let([type : {"str"}, name : {""}] \cup [type : RelationType, name : SchemaNames] \cup ExternalSchemaField,
        LAMBDA field : UNION {[S -> field] : S \in {{"x"}, FieldNames}})

DiffFiles ==
    UNION {[S -> [description : {"d1"}, fields : DiffFields]] : S \in {{"a"}, {"a", "b"}}}

InitDiff ==
    /\ schema_file \in DiffFiles
    /\ lock_file \in DeployLedgers
    /\ last = NoRun
    /\ prior = "none"
    /\ edits = 0
    /\ deployment = NoDeployment
    /\ execution = NoExecution
    /\ target_dir = NoTargetDir

\* build from the load of the files to get_diff.
Diff ==
    /\ last.outcome = "none"
    /\ Let(build_load(schema_file, lock_file), LAMBDA loaded :
         /\ loaded.status = "ok"
         /\ \E tie \in Orders(loaded.current_schemas, DOMAIN schema_file) :
               Let(get_diff(loaded.previous_schemas, loaded.current_schemas, tie), LAMBDA diff :
                   last' = Run(diff.status, schema_file, lock_file, lock_file, loaded.previous_schemas,
                               diff.diffs, <<>>, <<>>, loaded.store, FALSE, FALSE)))
    /\ UNCHANGED <<schema_file, lock_file, prior, edits, deployment, execution, target_dir>>

NextDiff == Diff

SpecDiff == InitDiff /\ [][NextDiff]_vars

(***************************************************************************)
(* `fishy init`.  The directory is target_dir: whether it exists, and its  *)
(* entries by their path from it.  An entry is a file with its content and *)
(* mode, or a directory.                                                   *)
(***************************************************************************)
PRIVATE_KEY_FILE_NAME == "secret.txt"
SCHEMA_FILE_NAME == "schema.toml"

\* The private keys KeyPair::new generates.
KeyPairs == {"k1", "k2"}

\* The names given to init; "1a" is none validate_name accepts.
InitNames == {"a", "b", "1a"}

validate_name(name) == name \in SchemaNames

\* Option<String>: the name of the command line, or None and the answer
\* typed at the prompt.
InitSchemaNames == [tag : {"Some", "None"}, name : InitNames]

File(content, mode) == [kind |-> "file", content |-> content, mode |-> mode]

Directory == [kind |-> "dir", content |-> <<>>, mode |-> "0755"]

\* Path::exists, for a path from the target directory.
Path_exists(dir, path) ==
    dir.exists /\ (path = <<>> \/ path \in DOMAIN dir.entries)

Path_is_dir(dir, path) ==
    dir.exists /\ (path = <<>> \/ (path \in DOMAIN dir.entries /\ dir.entries[path].kind = "dir"))

\* File::create and write_all: the file is created, or truncated when it
\* exists, in a directory that exists; the error leaves the directory as
\* it is.
write_file(dir, path, content, io_ok) ==
    IF \/ ~io_ok
       \/ ~Path_is_dir(dir, SubSeq(path, 1, Len(path) - 1))
       \/ Path_is_dir(dir, path)
    THEN [ok |-> FALSE, dir |-> dir]
    ELSE [ok |-> TRUE, dir |-> [dir EXCEPT !.entries = (path :> File(content, "0644")) @@ @]]

\* write_key_pair pushes PRIVATE_KEY_FILE_NAME on the path it is given,
\* writes the key there and sets the mode of the file.
write_key_pair(dir, target, key_pair, io_ok) ==
    Let(Append(target, PRIVATE_KEY_FILE_NAME), LAMBDA path :
    Let(write_file(dir, path, <<key_pair>>, io_ok), LAMBDA written :
        IF ~written.ok
        THEN written
        ELSE [ok |-> TRUE, dir |-> [written.dir EXCEPT !.entries[path].mode = "0600"]]))

init_secret_file(dir, key_pair_path, key_pair, io_ok) ==
    write_key_pair(dir, key_pair_path, key_pair, io_ok)

\* The template of init_schema_file, as the declaration it is.
SchemaTemplate(schema_name) ==
    [n \in {schema_name} |->
        [description |-> "Write about your schema here",
         fields |-> [f \in {"some_field"} |-> [type |-> "str", name |-> ""]]]]

init_schema_file(dir, schema_path, schema_name, io_ok) ==
    write_file(dir, schema_path, SchemaTemplate(schema_name), io_ok)

sanity_check(dir) == Path_exists(dir, <<>>)

\* An init that writes the schema file whether it exists or not.
init_schema_always(dir, schema_name, key_pair, io_ok) ==
    IF ~sanity_check(dir)
    THEN [outcome |-> "no_target_dir", dir |-> dir]
    ELSE
    Let(<<SCHEMA_FILE_NAME>>, LAMBDA schema_path :
    Let(<<PRIVATE_KEY_FILE_NAME>>, LAMBDA key_pair_path :
    Let(IF ~Path_exists(dir, key_pair_path)
        THEN init_secret_file(dir, key_pair_path, key_pair, io_ok)
        ELSE [ok |-> TRUE, dir |-> dir], LAMBDA secret :
        IF ~secret.ok
        THEN [outcome |-> "io_error", dir |-> secret.dir]
        ELSE IF ~validate_name(schema_name.name)
        THEN [outcome |-> IF schema_name.tag = "Some" THEN "invalid_name" ELSE "prompt_error",
              dir |-> secret.dir]
        ELSE Let(init_schema_file(secret.dir, schema_path, schema_name.name, io_ok), LAMBDA schema :
                 [outcome |-> IF schema.ok THEN "ok" ELSE "io_error", dir |-> schema.dir]))))

\* init: the outcome and the directory it leaves.  The prompt returns a
\* name validate_name accepts, or the error it ends with.
init(dir, schema_name, key_pair, io_ok) ==
    IF ~sanity_check(dir)
    THEN [outcome |-> "no_target_dir", dir |-> dir]
    ELSE
    Let(<<SCHEMA_FILE_NAME>>, LAMBDA schema_path :
    Let(<<PRIVATE_KEY_FILE_NAME>>, LAMBDA key_pair_path :
    Let(IF ~Path_exists(dir, key_pair_path)
        THEN init_secret_file(dir, key_pair_path, key_pair, io_ok)
        ELSE [ok |-> TRUE, dir |-> dir], LAMBDA secret :
        IF ~secret.ok
        THEN [outcome |-> "io_error", dir |-> secret.dir]
        ELSE IF Path_exists(secret.dir, schema_path)
        THEN [outcome |-> "ok", dir |-> secret.dir]
        ELSE IF ~validate_name(schema_name.name)
        THEN [outcome |-> IF schema_name.tag = "Some" THEN "invalid_name" ELSE "prompt_error",
              dir |-> secret.dir]
        ELSE Let(init_schema_file(secret.dir, schema_path, schema_name.name, io_ok), LAMBDA schema :
                 [outcome |-> IF schema.ok THEN "ok" ELSE "io_error", dir |-> schema.dir]))))

\* The directory of target_dir, without the record of the calls.
TargetDir == [exists |-> target_dir.exists, entries |-> target_dir.entries]

\* The entries without the path and what is under it.
Removed(entries, path) ==
    [p \in {q \in DOMAIN entries : ~IsPrefix(path, q)} |-> entries[p]]

\* The operator calls init on the directory.
RunInit ==
    /\ target_dir.calls < MaxInits
    /\ \E schema_name \in InitSchemaNames, key_pair \in KeyPairs, io_ok \in BOOLEAN :
          Let(init(TargetDir, schema_name, key_pair, io_ok), LAMBDA result :
              target_dir' = [exists |-> result.dir.exists,
                             entries |-> result.dir.entries,
                             calls |-> target_dir.calls + 1,
                             run |-> [outcome |-> result.outcome,
                                      schema_name |-> schema_name,
                                      before |-> TargetDir,
                                      after |-> result.dir]])
    /\ UNCHANGED <<schema_file, lock_file, last, prior, edits, deployment, execution>>

\* The operator makes the target directory.
MakeTargetDir ==
    /\ ~target_dir.exists
    /\ target_dir' = [target_dir EXCEPT !.exists = TRUE]
    /\ UNCHANGED <<schema_file, lock_file, last, prior, edits, deployment, execution>>

\* The operator removes the target directory and what is in it.
RemoveTargetDir ==
    /\ target_dir.exists
    /\ target_dir' = [target_dir EXCEPT !.exists = FALSE, !.entries = Removed(@, <<>>)]
    /\ UNCHANGED <<schema_file, lock_file, last, prior, edits, deployment, execution>>

\* The operator puts a private key of their own into the directory.
PlaceKey ==
    /\ target_dir.exists
    /\ ~Path_is_dir(TargetDir, <<PRIVATE_KEY_FILE_NAME>>)
    /\ \E key_pair \in KeyPairs :
          target_dir' = [target_dir EXCEPT
                            !.entries = (<<PRIVATE_KEY_FILE_NAME>> :> File(<<key_pair>>, "0600")) @@ @]
    /\ UNCHANGED <<schema_file, lock_file, last, prior, edits, deployment, execution>>

\* The operator makes a directory where the private key is looked for.
MakeKeyDir ==
    /\ target_dir.exists
    /\ ~Path_exists(TargetDir, <<PRIVATE_KEY_FILE_NAME>>)
    /\ target_dir' = [target_dir EXCEPT !.entries = (<<PRIVATE_KEY_FILE_NAME>> :> Directory) @@ @]
    /\ UNCHANGED <<schema_file, lock_file, last, prior, edits, deployment, execution>>

\* The operator edits the schema file: another description.
EditSchemaFile ==
    /\ Path_exists(TargetDir, <<SCHEMA_FILE_NAME>>)
    /\ \E description \in Descriptions :
          target_dir' = [target_dir EXCEPT
                            !.entries[<<SCHEMA_FILE_NAME>>].content =
                                [n \in DOMAIN @ |-> [@[n] EXCEPT !.description = description]]]
    /\ UNCHANGED <<schema_file, lock_file, last, prior, edits, deployment, execution>>

\* The operator removes an entry of the directory.
RemoveEntry ==
    /\ \E path \in DOMAIN target_dir.entries :
          /\ Len(path) = 1
          /\ target_dir' = [target_dir EXCEPT !.entries = Removed(@, path)]
    /\ UNCHANGED <<schema_file, lock_file, last, prior, edits, deployment, execution>>

InitInit ==
    /\ schema_file = <<>>
    /\ lock_file = <<>>
    /\ last = NoRun
    /\ prior = "none"
    /\ edits = 0
    /\ deployment = NoDeployment
    /\ execution = NoExecution
    /\ target_dir \in {NoTargetDir, [NoTargetDir EXCEPT !.exists = TRUE]}

NextInit ==
    \/ RunInit
    \/ MakeTargetDir
    \/ RemoveTargetDir
    \/ PlaceKey
    \/ MakeKeyDir
    \/ EditSchemaFile
    \/ RemoveEntry

SpecInit == InitInit /\ [][NextInit]_vars

(***************************************************************************)
(* Properties of the runs.  last is the run under consideration: its       *)
(* declaration is last.schema_file, the ledger it loaded last.before, the  *)
(* commits it generated last.commits.                                      *)
(***************************************************************************)
\* execute_plan returned Ok: every diff was executed.
Succeeded == last.executed /\ last.outcome # "storage_failure"

\* C1 (no-op idempotence): a run of build on the declaration and the ledger
\* that the previous run on the same declaration has written generates no
\* commit: it ends with "no changes" (or, in inspect mode, with the empty
\* plan shown) and leaves the ledger as it is.
C1_NoOpIdempotence ==
    (prior = "written" /\ last.outcome # "none") =>
        /\ Succeeded
        /\ last.commits = <<>>
        /\ last.outcome \in {"no_changes", "inspected"}
        /\ lock_file = last.before

\* A second run on a declaration of two schemas, one relating to the other,
\* after the first run has written its commits.
C1_Witness ==
    /\ prior = "written"
    /\ last.outcome = "no_changes"
    /\ Len(last.before) >= 4
    /\ \E n \in DOMAIN schema_file : \E f \in DOMAIN schema_file[n].fields :
          IsRelation(schema_file[n].fields[f])

\* C2 (topological invariant): in the list get_diff returns, every name is
\* there once, the diff of the target of a relation field comes strictly
\* before the diff of the schema that declares the field, and the schema
\* diff a field diff embeds is one of the earlier diffs of the list.
C2_TopologicalInvariant ==
    last.executed =>
        /\ Len(last.diffs) = Cardinality(DOMAIN last.schema_file)
        /\ \A i, j \in 1..Len(last.diffs) : last.diffs[i].name = last.diffs[j].name => i = j
        /\ \A i \in 1..Len(last.diffs) : \A k \in 1..Len(last.diffs[i].current_fields) :
              last.diffs[i].current_fields[k].current_field_type.tag = "Relation" =>
                  \E j \in 1..(i - 1) :
                      last.diffs[j] = last.diffs[i].current_fields[k].current_field_type.diff[1]
        /\ \A A \in DOMAIN last.schema_file : \A f \in DOMAIN last.schema_file[A].fields :
              IsRelation(last.schema_file[A].fields[f]) =>
                  \E j, i \in 1..Len(last.diffs) :
                      /\ j < i
                      /\ last.diffs[j].name = last.schema_file[A].fields[f].name
                      /\ last.diffs[i].name = A

\* A chain of three schemas: the third diff embeds the second, the second
\* the first.
C2_Witness ==
    /\ last.executed
    /\ Len(last.diffs) = 3
    /\ \E k \in 1..Len(last.diffs[3].current_fields) :
          last.diffs[3].current_fields[k].current_field_type.diff = <<last.diffs[2]>>
    /\ \E k \in 1..Len(last.diffs[2].current_fields) :
          last.diffs[2].current_fields[k].current_field_type.diff = <<last.diffs[1]>>

\* C3 (cycle rejection): a run on a declaration in which two or more
\* schemas relate to each other in a cycle does not enter execute_plan,
\* generates no commit and leaves the ledger as it is; where the run comes
\* to get_diff, it ends with the error of the cyclic dependency.  (A path
\* between two of the three names has at most two steps.)
C3_CycleRejection ==
    LET file == last.schema_file
        Edge(a, b) == \E f \in DOMAIN file[a].fields : file[a].fields[f] = [type |-> "relation", name |-> b]
        Path(a, b) == Edge(a, b) \/ \E c \in DOMAIN file : Edge(a, c) /\ Edge(c, b)
    IN  (\E a, b \in DOMAIN file : a # b /\ Path(a, b) /\ Path(b, a)) =>
            /\ ~last.executed
            /\ last.commits = <<>>
            /\ lock_file = last.before
            /\ last.outcome \notin {"no_fields", "invalid_lock_file"} => last.outcome = "cyclic"

\* Two schemas that relate to each other, declared over a ledger that is
\* not empty: the run ends with the cyclic dependency error.
C3_Witness ==
    /\ last.outcome = "cyclic"
    /\ last.before # <<>>
    /\ \E a, b \in DOMAIN last.schema_file :
          /\ a # b
          /\ \E f \in DOMAIN last.schema_file[a].fields :
                last.schema_file[a].fields[f] = [type |-> "relation", name |-> b]
          /\ \E f \in DOMAIN last.schema_file[b].fields :
                last.schema_file[b].fields[f] = [type |-> "relation", name |-> a]

\* C4 (identifier propagation): in a run whose execute_plan returned Ok,
\* where A declares a relation field f to B: when the description or the
\* set of fields of B differs from the previous version of B, the run
\* updates the schema document of B.  When the run gave B a new view and A
\* had the field before, the run updates the field document to the new
\* schema id of B and, after it, the schema document of A with the new
\* view of the field.  When A has no previous version, the run creates the
\* field with the id it gave B, and then A with the field.
C4_IdentifierPropagation ==
    LET file == last.schema_file
        prev == last.previous_schemas
        commits == last.commits
        IdOf(B) == (CHOOSE p \in SeqToSet(last.plans) : p.schema_diff.name = B).schema_id
        Edited(B) ==
            \/ file[B].description # prev[B].schema_view.description
            \/ DOMAIN file[B].fields #
                  {prev[B].schema_field_views[k].name : k \in 1..Len(prev[B].schema_field_views)}
        SchemaUpdate(i, n) ==
            /\ commits[i].operation.schema = "schema_definition"
            /\ commits[i].operation.action = "update"
            /\ commits[i].operation.previous = prev[n].schema_view.view_id
        Propagated(A, f, B) ==
            /\ Edited(B) => \E i \in 1..Len(commits) : SchemaUpdate(i, B) /\ IdOf(B).view = Hash(commits[i].entry)
            /\ IdOf(B).view # prev[B].schema_view.view_id =>
                  \A v \in 1..Len(prev[A].schema_field_views) :
                      prev[A].schema_field_views[v].name = f =>
                          \E i, j \in 1..Len(commits) :
                              /\ i < j
                              /\ commits[i].operation =
                                    Operation("schema_field_definition", "update", prev[A].schema_field_views[v].id,
                                              {"type"}, "", "", <<>>, PandaFieldType("relation", IdOf(B)))
                              /\ SchemaUpdate(j, A)
                              /\ "fields" \in commits[j].operation.attrs
                              /\ \E k \in 1..Len(commits[j].operation.fields) :
                                    commits[j].operation.fields[k] = Hash(commits[i].entry)
        Created(A, f, B) ==
            \E i, j \in 1..Len(commits) :
                /\ i < j
                /\ commits[i].operation =
                      Operation("schema_field_definition", "create", 0, {"name", "type"}, f, "", <<>>,
                                PandaFieldType("relation", IdOf(B)))
                /\ commits[j].operation.schema = "schema_definition"
                /\ commits[j].operation.action = "create"
                /\ commits[j].operation.name = A
                /\ \E k \in 1..Len(commits[j].operation.fields) :
                      commits[j].operation.fields[k] = Hash(commits[i].entry)
    IN  Succeeded =>
            \A A \in DOMAIN file : \A f \in DOMAIN file[A].fields :
                IsRelation(file[A].fields[f]) =>
                    /\ (A \in DOMAIN prev /\ file[A].fields[f].name \in DOMAIN prev) =>
                          Propagated(A, f, file[A].fields[f].name)
                    /\ A \notin DOMAIN prev => Created(A, f, file[A].fields[f].name)

\* A and B have previous versions, A with its relation field to B; only
\* the description of B was edited; the run generates three commits.
C4_Witness ==
    /\ Succeeded
    /\ Len(last.commits) = 3
    /\ \E A, B \in DOMAIN last.schema_file \cap DOMAIN last.previous_schemas :
          /\ A # B
          /\ \E f \in DOMAIN last.schema_file[A].fields :
                /\ last.schema_file[A].fields[f] = [type |-> "relation", name |-> B]
                /\ \E v \in 1..Len(last.previous_schemas[A].schema_field_views) :
                      /\ last.previous_schemas[A].schema_field_views[v].name = f
                      /\ last.previous_schemas[A].schema_field_views[v].field_type.kind = "relation"
          /\ last.schema_file[A].description = last.previous_schemas[A].schema_view.description
          /\ last.schema_file[B].description # last.previous_schemas[B].schema_view.description

\* C5 (new or update): in a run whose execute_plan returned Ok, for a
\* declared schema whose name has no schema document in the ledger the run
\* generates exactly one create of a schema
\* document of the name; its list of fields holds, in the order of the
\* declared fields, the ids of as many different creates of field
\* documents of the declared names, generated before it; no update of the
\* run is on one of these documents.  The run creates one field document
\* for every declared field that has no previous view, and no other.
C5_NewSchemaIsCreated ==
    LET file == last.schema_file
        prev == last.previous_schemas
        commits == last.commits
        op(i) == last.commits[i].operation
        names(n) == SortedFieldNames(DOMAIN file[n].fields)
        creates(n) == {i \in 1..Len(commits) :
                          op(i).schema = "schema_definition" /\ op(i).action = "create" /\ op(i).name = n}
        HasView(n, f) == /\ n \in DOMAIN prev
                         /\ \E v \in 1..Len(prev[n].schema_field_views) : prev[n].schema_field_views[v].name = f
    IN  Succeeded =>
            /\ \A n \in DOMAIN file \ DOMAIN prev :
                  /\ Cardinality(creates(n)) = 1
                  /\ \A i \in creates(n) :
                        /\ Len(op(i).fields) = Len(names(n))
                        /\ \A k \in 1..Len(names(n)) : \E j \in 1..(i - 1) :
                              /\ op(i).fields[k] = Hash(commits[j].entry)
                              /\ op(j).schema = "schema_field_definition"
                              /\ op(j).action = "create"
                              /\ op(j).name = names(n)[k]
                        /\ \A k, l \in 1..Len(op(i).fields) : op(i).fields[k] = op(i).fields[l] => k = l
                        /\ \A j \in 1..Len(commits) :
                              op(j).action = "update" =>
                                  DocumentId(last.store, op(j).previous)
                                      \notin {Hash(commits[i].entry)} \cup SeqToSet(op(i).fields)
            /\ Cardinality({i \in 1..Len(commits) :
                                op(i).schema = "schema_field_definition" /\ op(i).action = "create"})
                  = Cardinality({nf \in (DOMAIN file) \X FieldNames :
                                    nf[2] \in DOMAIN file[nf[1]].fields /\ ~HasView(nf[1], nf[2])})

\* A new schema with two fields is declared beside a schema that has a
\* previous version.
C5_Witness ==
    /\ Succeeded
    /\ \E n \in DOMAIN last.schema_file \ DOMAIN last.previous_schemas :
          /\ DOMAIN last.schema_file[n].fields = FieldNames
          /\ \E i \in 1..Len(last.commits) :
                /\ last.commits[i].operation.action = "create"
                /\ last.commits[i].operation.name = n
                /\ Len(last.commits[i].operation.fields) = 2
    /\ DOMAIN last.previous_schemas # {}

\* C6 (removal of a field): in a run whose execute_plan returned Ok, when
\* a field of the previous version of a declared schema is not declared
\* any more, the run generates no operation
\* but creates and updates, none of them on the document of the removed
\* field, and exactly one update of the schema document; the update sets
\* the list of fields to the ids of the declared fields, in their order,
\* each the latest view of its field document, and the id of the removed
\* field is not among them.
C6_FieldRemoval ==
    LET file == last.schema_file
        prev == last.previous_schemas
        commits == last.commits
        op(i) == last.commits[i].operation
        names(n) == SortedFieldNames(DOMAIN file[n].fields)
        views(n) == prev[n].schema_field_views
        removed(n) == {v \in 1..Len(views(n)) : views(n)[v].name \notin DOMAIN file[n].fields}
        updates(n) == {i \in 1..Len(commits) :
                          /\ op(i).schema = "schema_definition"
                          /\ op(i).action = "update"
                          /\ op(i).previous = prev[n].schema_view.view_id}
    IN  Succeeded =>
            \A n \in DOMAIN file \cap DOMAIN prev :
                removed(n) # {} =>
                    /\ \A i \in 1..Len(commits) : op(i).action \in {"create", "update"}
                    /\ \A i \in 1..Len(commits) : \A v \in removed(n) :
                          op(i).action = "update" =>
                              DocumentId(last.store, op(i).previous) # DocumentId(last.store, views(n)[v].id)
                    /\ Cardinality(updates(n)) = 1
                    /\ \A i \in updates(n) :
                          /\ "fields" \in op(i).attrs
                          /\ Len(op(i).fields) = Len(names(n))
                          /\ \A k \in 1..Len(names(n)) :
                                /\ DocumentView(last.store, op(i).fields[k]).name = names(n)[k]
                                /\ LatestViewId(last.store, DocumentId(last.store, op(i).fields[k]))
                                      = op(i).fields[k]
                          /\ \A v \in removed(n) : views(n)[v].id \notin SeqToSet(op(i).fields)
                          /\ SchemaView(last.store, Hash(commits[i].entry)).fields = op(i).fields

\* One of the two fields of a schema was removed, nothing else changed:
\* the run generates the update of the schema, and no other commit.
C6_Witness ==
    /\ Succeeded
    /\ Len(last.commits) = 1
    /\ \E n \in DOMAIN last.schema_file \cap DOMAIN last.previous_schemas :
          /\ Len(last.previous_schemas[n].schema_field_views) = 2
          /\ Cardinality(DOMAIN last.schema_file[n].fields) = 1
          /\ last.commits[1].operation.previous = last.previous_schemas[n].schema_view.view_id
          /\ Len(last.commits[1].operation.fields) = 1

\* C7 (three runs): the declaration is one schema n with one scalar field
\* f, and execute_plan returns Ok.  On the empty ledger the run generates
\* two commits, the create of the field and then the create of the schema
\* with the field.  The run after a run that has written generates none.
\* On the ledger of these two commits, with another description declared,
\* the run generates one commit: the update of the schema, on the view the
\* create gave, that sets the description alone; the new view lists the
\* same field id.
C7_ThreeRuns ==
    LET file == last.schema_file
        commits == last.commits
        before == last.before
        n == CHOOSE m \in DOMAIN file : TRUE
        f == CHOOSE g \in DOMAIN file[n].fields : TRUE
        field_create == Operation("schema_field_definition", "create", 0, {"name", "type"}, f, "", <<>>,
                                  PandaFieldType(file[n].fields[f].type, NoSchemaId))
        schema_create(d, id) == Operation("schema_definition", "create", 0, {"name", "description", "fields"},
                                          n, d, <<id>>, NoType)
    IN  (/\ Succeeded
         /\ Cardinality(DOMAIN file) = 1
         /\ Cardinality(DOMAIN file[n].fields) = 1
         /\ ~IsRelation(file[n].fields[f])) =>
            /\ before = <<>> =>
                  /\ Len(commits) = 2
                  /\ commits[1].operation = field_create
                  /\ commits[2].operation = schema_create(file[n].description, Hash(commits[1].entry))
            /\ prior = "written" => commits = <<>>
            /\ (/\ Len(before) = 2
                /\ before[1].operation = field_create
                /\ \E d \in Descriptions \ {file[n].description} :
                      before[2].operation = schema_create(d, Hash(before[1].entry))) =>
                  /\ Len(commits) = 1
                  /\ commits[1].operation =
                        Operation("schema_definition", "update", Hash(before[2].entry), {"description"},
                                  "", file[n].description, <<>>, NoType)
                  /\ SchemaView(last.store, Hash(commits[1].entry)).fields = <<Hash(before[1].entry)>>
                  /\ SchemaView(last.store, Hash(commits[1].entry)).description = file[n].description

\* The third run of the scenario: one schema with one scalar field, the
\* ledger of two commits, and the update of the description generated.
C7_Witness ==
    /\ Succeeded
    /\ Cardinality(DOMAIN last.schema_file) = 1
    /\ \A n \in DOMAIN last.schema_file :
          /\ Cardinality(DOMAIN last.schema_file[n].fields) = 1
          /\ \A f \in DOMAIN last.schema_file[n].fields : ~IsRelation(last.schema_file[n].fields[f])
    /\ Len(last.before) = 2
    /\ Len(last.commits) = 1
    /\ last.commits[1].operation.action = "update"
    /\ last.commits[1].operation.attrs = {"description"}

\* C8 (append-only ledger): every step leaves the commits of the lock file
\* a prefix of what it holds afterwards; a run loads the lock file as it
\* is, a run that writes leaves it as the commits loaded followed by the
\* commits of the run in the order generated, and every other run leaves it
\* as it is.
C8_AppendOnly ==
    [][/\ IsPrefix(lock_file, lock_file')
       /\ last'.outcome # "none" =>
             /\ last'.before = lock_file
             /\ last'.outcome = "written" => lock_file' = lock_file \o last'.commits
             /\ last'.outcome # "written" => lock_file' = lock_file]_vars

\* A run has appended two or more commits to a ledger that was not empty.
C8_Witness ==
    /\ last.outcome = "written"
    /\ last.before # <<>>
    /\ Len(last.commits) >= 2
    /\ lock_file = last.before \o last.commits

\* C9 (declined confirmation): a run that ends with the prompt declined
\* leaves the lock file with the commits it loaded.
C9_DeclinedLeavesLedger ==
    last.outcome = "aborted" =>
        /\ lock_file = last.before
        /\ last.lock_file = last.before
        /\ ~last.confirmed

\* The prompt was declined for a plan of three or more commits, over a
\* ledger that was not empty.
C9_Witness ==
    /\ last.outcome = "aborted"
    /\ Len(last.commits) >= 3
    /\ last.before # <<>>
    /\ lock_file = last.before

\* C10 (all or nothing): a run in which a publish of execute_plan failed
\* leaves the lock file as loaded; a run that changed the lock file ended
\* written, after execute_plan returned Ok with a plan for every declared
\* schema and the prompt was confirmed.
C10_AllOrNothing ==
    /\ last.outcome = "storage_failure" =>
          /\ last.executed
          /\ lock_file = last.before
    /\ (last.outcome # "none" /\ lock_file # last.before) =>
          /\ last.outcome = "written"
          /\ Succeeded
          /\ last.confirmed
          /\ \A n \in DOMAIN last.schema_file :
                \E i \in 1..Len(last.plans) : last.plans[i].schema_diff.name = n

\* The second publish of a run failed: the first operation is in the
\* store of the run, the lock file is as it was.
C10_Witness ==
    /\ last.outcome = "storage_failure"
    /\ Len(last.commits) = 1
    /\ Len(last.store) = Len(last.before) + 1
    /\ last.before # <<>>
    /\ lock_file = last.before

\* C11 (executed once): in every run that entered execute_plan, the plans
\* hold at most one entry for a schema name, no two commits of the run are
\* on the same document, at most one commit is on a schema document of a
\* declared name, and the commits on field documents of a name are at most
\* as many as the declared schemas that have a field of the name.  This
\* holds where a schema is the target of several relation fields and where
\* it is reached over several paths of relations.
C11_ExecutedOnce ==
    LET file == last.schema_file
        commits == last.commits
        onSchema(n) == {i \in 1..Len(commits) :
                           /\ commits[i].operation.schema = "schema_definition"
                           /\ DocumentView(last.store, Hash(commits[i].entry)).name = n}
        onField(f) == {i \in 1..Len(commits) :
                          /\ commits[i].operation.schema = "schema_field_definition"
                          /\ DocumentView(last.store, Hash(commits[i].entry)).name = f}
    IN  last.executed =>
            /\ \A i, j \in 1..Len(last.plans) :
                  last.plans[i].schema_diff.name = last.plans[j].schema_diff.name => i = j
            /\ \A i, j \in 1..Len(commits) :
                  DocumentId(last.store, Hash(commits[i].entry)) = DocumentId(last.store, Hash(commits[j].entry))
                      => i = j
            /\ \A n \in SchemaNames : Cardinality(onSchema(n)) <= (IF n \in DOMAIN file THEN 1 ELSE 0)
            /\ \A f \in FieldNames :
                  Cardinality(onField(f)) <= Cardinality({n \in DOMAIN file : f \in DOMAIN file[n].fields})

\* A diamond, all of it new: one schema relates to two others, one of
\* which relates to the other; seven commits, three plans.
C11_Witness ==
    /\ Succeeded
    /\ Len(last.plans) = 3
    /\ Len(last.commits) = 7
    /\ \E a, b, c \in DOMAIN last.schema_file :
          /\ last.schema_file[a].fields =
                [f \in FieldNames |-> [type |-> "relation", name |-> IF f = "x" THEN b ELSE c]]
          /\ last.schema_file[b].fields = [f \in {"x"} |-> [type |-> "relation", name |-> c]]
          /\ \A f \in DOMAIN last.schema_file[c].fields : ~IsRelation(last.schema_file[c].fields[f])

\* C12 (per-entity state machine): in a run whose execute_plan returned Ok,
\* for every declared schema and every declared field: when it has a
\* previous view and nothing of it differs, the run has no commit on its
\* document and its id in the run is the id of the previous view; when it
\* has a previous view and something differs, the run has exactly one
\* commit on its document, an update whose predecessor is the previous
\* view; when it has no previous view, the run has exactly one commit on
\* its document, the create.  A field differs when its declared type, with
\* the id the run gave the linked schema, is not the type of its previous
\* view; a schema differs when its description or its list of fields does,
\* or one of its fields is new or differs.
C12_PerEntityStateMachine ==
    LET file == last.schema_file
        prev == last.previous_schemas
        commits == last.commits
        op(i) == last.commits[i].operation
        IdOf(n) == (CHOOSE p \in SeqToSet(last.plans) : p.schema_diff.name = n).schema_id
        names(n) == SortedFieldNames(DOMAIN file[n].fields)
        onDoc(d) == {i \in 1..Len(commits) : DocumentId(last.store, Hash(commits[i].entry)) = d}
        Entity(previous, differs, id, schema, name) ==
            IF Len(previous) = 1 /\ ~differs
            THEN id = previous[1] /\ onDoc(DocumentId(last.store, previous[1])) = {}
            ELSE IF Len(previous) = 1
            THEN \E i \in 1..Len(commits) :
                    /\ onDoc(DocumentId(last.store, previous[1])) = {i}
                    /\ op(i).schema = schema
                    /\ op(i).action = "update"
                    /\ op(i).previous = previous[1]
                    /\ id = Hash(commits[i].entry)
            ELSE \E i \in 1..Len(commits) :
                    /\ onDoc(id) = {i}
                    /\ op(i).schema = schema
                    /\ op(i).action = "create"
                    /\ op(i).name = name
                    /\ id = Hash(commits[i].entry)
        PreviousField(n, f) ==
            IF n \in DOMAIN prev
            THEN find(SelectSeq(prev[n].schema_field_views, LAMBDA view : view.name = f))
            ELSE <<>>
        Declared(n, f) ==
            IF IsRelation(file[n].fields[f])
            THEN PandaFieldType(file[n].fields[f].type, IdOf(file[n].fields[f].name))
            ELSE PandaFieldType(file[n].fields[f].type, NoSchemaId)
        FieldDiffers(n, f) ==
            \/ Len(PreviousField(n, f)) = 0
            \/ PreviousField(n, f)[1].field_type # Declared(n, f)
        SchemaDiffers(n) ==
            \/ file[n].description # prev[n].schema_view.description
            \/ names(n) # [k \in 1..Len(prev[n].schema_field_views) |-> prev[n].schema_field_views[k].name]
            \/ \E f \in DOMAIN file[n].fields : FieldDiffers(n, f)
    IN  Succeeded =>
            \A n \in DOMAIN file :
                /\ Entity(IF n \in DOMAIN prev THEN <<prev[n].schema_view.view_id>> ELSE <<>>,
                          n \in DOMAIN prev /\ SchemaDiffers(n), IdOf(n).view, "schema_definition", n)
                /\ Len(SchemaView(last.store, IdOf(n).view).fields) = Len(names(n))
                /\ \A k \in 1..Len(names(n)) :
                      Entity(IF Len(PreviousField(n, names(n)[k])) = 1
                             THEN <<PreviousField(n, names(n)[k])[1].id>> ELSE <<>>,
                             FieldDiffers(n, names(n)[k]),
                             SchemaView(last.store, IdOf(n).view).fields[k],
                             "schema_field_definition", names(n)[k])

\* One run with entities in each of the three states: of two schemas with
\* previous views one is as it was, the other was given a second field;
\* the run creates the new field and updates the schema, whose first field
\* keeps its view.
C12_Witness ==
    /\ Succeeded
    /\ Cardinality(DOMAIN last.schema_file \cap DOMAIN last.previous_schemas) = 2
    /\ Len(last.commits) = 2
    /\ last.commits[1].operation.schema = "schema_field_definition"
    /\ last.commits[1].operation.action = "create"
    /\ last.commits[2].operation.schema = "schema_definition"
    /\ last.commits[2].operation.action = "update"
    /\ \E n \in DOMAIN last.previous_schemas :
          /\ last.commits[2].operation.previous = last.previous_schemas[n].schema_view.view_id
          /\ last.commits[2].operation.fields =
                <<last.previous_schemas[n].schema_field_views[1].id, Hash(last.commits[1].entry)>>

\* C13 (no tombstones): every operation a run generates is a create or an
\* update, never a delete; a schema that has a document in the ledger and
\* is not declared gets no commit in the run: none on its schema document,
\* none on the documents of its fields, and no create of its name.
C13_NoTombstones ==
    LET file == last.schema_file
        prev == last.previous_schemas
        commits == last.commits
        docs(n) == {DocumentId(last.store, prev[n].schema_view.view_id)}
                       \cup {DocumentId(last.store, prev[n].schema_field_views[k].id) :
                                 k \in 1..Len(prev[n].schema_field_views)}
    IN  /\ \A i \in 1..Len(commits) : commits[i].operation.action \in {"create", "update"}
        /\ \A n \in DOMAIN prev \ DOMAIN file : \A i \in 1..Len(commits) :
              /\ DocumentId(last.store, Hash(commits[i].entry)) \notin docs(n)
              /\ DocumentView(last.store, Hash(commits[i].entry)).name # n
                    \/ commits[i].operation.schema # "schema_definition"

\* A run that wrote the commits of a new schema over a ledger that holds a
\* schema no longer declared.
C13_Witness ==
    /\ last.outcome = "written"
    /\ last.commits # <<>>
    /\ DOMAIN last.previous_schemas \ DOMAIN last.schema_file # {}
    /\ DOMAIN last.schema_file \ DOMAIN last.previous_schemas # {}

C15_HashIntegrity ==
    LET before == last.before
        bad == {i \in 1..Len(before) : before[i].entry_hash # Hash(before[i].entry)}
        first == CHOOSE i \in bad : \A j \in bad : i <= j
    IN  (last.outcome # "none" /\ bad # {}) =>
            /\ ~last.executed
            /\ last.diffs = <<>>
            /\ last.plans = <<>>
            /\ last.commits = <<>>
            /\ lock_file = before
            /\ last.outcome \in {"invalid_lock_file", "empty_schema_file"}
            /\ DOMAIN last.schema_file # {} =>
                  /\ last.outcome = "invalid_lock_file"
                  /\ last.store = [i \in 1..(first - 1) |->
                                      [entry |-> before[i].entry, operation |-> before[i].operation]]

\* The entry hash of the second of four or more commits was changed: the
\* run ends with the first commit alone in its store.
C15_Witness ==
    /\ last.outcome = "invalid_lock_file"
    /\ Len(last.before) >= 4
    /\ last.before[1].entry_hash = Hash(last.before[1].entry)
    /\ last.before[2].entry_hash # Hash(last.before[2].entry)
    /\ Len(last.store) = 1

\* C16 (deployment skip rule): for every commit deploy has handled to
\* which the node answered the nextArgs query with the log id of the
\* entry: when the next sequence number of the answer is greater than the
\* sequence number of the entry, the commit is skipped, not sent and no
\* error returned, and deploy goes on with the next commit; when it is not
\* greater, the publish request for the commit is sent.
C16_SkipRule ==
    \A k \in 1..Len(deployment.handled) :
        LET turn == deployment.handled[k]
        IN  (turn.response.ok /\ turn.response.log_id = turn.commit.entry.log_id) =>
                /\ turn.response.seq_num > turn.commit.entry.seq_num =>
                      /\ turn.result = "skipped"
                      /\ turn.commit \notin SeqToSet(deployment.node)
                      /\ deployment.status \in {"running", "done"} \/ k < Len(deployment.handled)
                /\ turn.response.seq_num <= turn.commit.entry.seq_num =>
                      turn.result \in {"published", "request_failed"}

\* C17 (deployment consistency error): when the node answers for a commit
\* with a log id that is not the log id of the entry, deploy returns the
\* inconsistency error at that commit: it is the last commit handled,
\* neither it nor a later commit of the lock file is sent to the node, and
\* the node keeps the commits published before, in their order.
C17_LogIdMismatch ==
    \A k \in 1..Len(deployment.handled) :
        LET turn == deployment.handled[k]
            earlier == SelectSeq(SubSeq(deployment.handled, 1, k - 1), LAMBDA t : t.result = "published")
        IN  (turn.response.ok /\ turn.response.log_id # turn.commit.entry.log_id) =>
                /\ turn.result = "inconsistent"
                /\ deployment.status = "inconsistent"
                /\ k = Len(deployment.handled)
                /\ deployment.i = k
                /\ \A j \in k..Len(deployment.commits) : deployment.commits[j] \notin SeqToSet(deployment.node)
                /\ deployment.node = [j \in 1..Len(earlier) |-> earlier[j].commit]

\* The node names another log for the third commit of the lock file,
\* after the first commit was published and the second skipped.
C17_Witness ==
    /\ deployment.status = "inconsistent"
    /\ Len(deployment.handled) = 3
    /\ deployment.handled[1].result = "published"
    /\ deployment.handled[2].result = "skipped"
    /\ deployment.handled[3].response.log_id # deployment.handled[3].commit.entry.log_id
    /\ deployment.handled[3].response.seq_num > deployment.handled[3].commit.entry.seq_num
    /\ deployment.node = <<deployment.commits[1]>>

\* C18 (configuration errors): a run on a schema.toml without schemas ends
\* with the error of the empty schema file, and a run on one in which a
\* schema has no fields with the error of get_current_schemas; neither
\* enters execute_plan: no diff, no operation built or published, no
\* commit generated, and the lock file is left as it is.
C18_ConfigurationErrors ==
    LET file == last.schema_file
        empty == DOMAIN file = {}
        no_fields == \E n \in DOMAIN file : DOMAIN file[n].fields = {}
    IN  (last.outcome # "none" /\ (empty \/ no_fields)) =>
            /\ ~last.executed
            /\ last.diffs = <<>>
            /\ last.plans = <<>>
            /\ last.commits = <<>>
            /\ Len(last.store) <= Len(last.before)
            /\ lock_file = last.before
            /\ last.lock_file = last.before
            /\ empty => last.outcome = "empty_schema_file"
            /\ no_fields => last.outcome \in {"no_fields", "invalid_lock_file"}

\* The only field of a schema was removed after a run had written the
\* schema: the next run ends with the error of the schema without fields.
C18_Witness ==
    /\ last.outcome = "no_fields"
    /\ last.before # <<>>
    /\ \E n \in DOMAIN last.schema_file \cap DOMAIN last.previous_schemas :
          /\ DOMAIN last.schema_file[n].fields = {}
          /\ Len(last.previous_schemas[n].schema_field_views) = 1
    /\ lock_file = last.before

\* C19 (deterministic plan): for a declaration and a ledger, every run of
\* get_diff returns the schema diffs in one order, the order in which the
\* names of each round of the topological sort come lexicographically; so
\* the commits of every run that executes the plan without a failure are
\* the same, in the same order.
C19_DeterministicPlan ==
    LET lexicographic == build(last.schema_file, last.before, TRUE, FALSE, SchemaNameOrder, 0)
    IN  last.executed =>
            /\ last.diffs = lexicographic.diffs
            /\ Succeeded => last.commits = lexicographic.commits

\* C20 (self-relations): a run on a declaration in which a schema has a
\* relation field to its own name, no two schemas relate to each other in
\* a cycle, every schema has fields and every relation names a declared
\* schema, is not rejected with the cyclic dependency error: it enters
\* execute_plan, and where that returns Ok the schema has a plan, and its
\* schema document is committed after the commits of all of its fields,
\* the field that relates to the schema itself among them.
C20_SelfRelation ==
    LET file == last.schema_file
        Edge(a, b) == \E f \in DOMAIN file[a].fields : file[a].fields[f] = [type |-> "relation", name |-> b]
        Path(a, b) == Edge(a, b) \/ \E c \in DOMAIN file : Edge(a, c) /\ Edge(c, b)
        accepted == /\ \A n \in DOMAIN file : DOMAIN file[n].fields # {}
                    /\ \A n \in DOMAIN file : \A f \in DOMAIN file[n].fields :
                          IsRelation(file[n].fields[f]) => file[n].fields[f].name \in DOMAIN file
                    /\ ~\E a, b \in DOMAIN file : a # b /\ Path(a, b) /\ Path(b, a)
    IN  (last.outcome # "none" /\ accepted /\ \E n \in DOMAIN file : Edge(n, n)) =>
            /\ last.outcome # "cyclic"
            /\ last.executed
            /\ Succeeded =>
                  \A n \in DOMAIN file : Edge(n, n) =>
                      /\ \E i \in 1..Len(last.plans) : last.plans[i].schema_diff.name = n
                      /\ \A i, j \in 1..Len(last.commits) :
                            (/\ last.commits[j].operation.schema = "schema_definition"
                             /\ DocumentView(last.store, Hash(last.commits[j].entry)).name = n
                             /\ Hash(last.commits[i].entry) \in
                                    SeqToSet(SchemaView(last.store, Hash(last.commits[j].entry)).fields))
                                => i < j

\* C21 (plan content): after execute_plan returned Ok the plans hold one
\* entry for every declared schema and no other, in the order of the diffs
\* get_diff returned, each with its diff; the schema id of an entry is
\* made of the declared name and a view id: the id of the previous view
\* when the run has no commit on a schema document of the name, and else
\* the hash of the entry of the one commit the run has on it.
C21_PlanContent ==
    LET commits == last.commits
        onSchema(n) == {j \in 1..Len(commits) :
                           /\ commits[j].operation.schema = "schema_definition"
                           /\ DocumentView(last.store, Hash(commits[j].entry)).name = n}
    IN  Succeeded =>
            /\ Len(last.plans) = Len(last.diffs)
            /\ {last.plans[i].schema_id.name : i \in 1..Len(last.plans)} = DOMAIN last.schema_file
            /\ Len(last.plans) = Cardinality(DOMAIN last.schema_file)
            /\ \A i \in 1..Len(last.plans) :
                  /\ last.plans[i].schema_diff = last.diffs[i]
                  /\ last.plans[i].schema_id.name = last.diffs[i].name
                  /\ IF onSchema(last.diffs[i].name) = {}
                     THEN /\ last.diffs[i].name \in DOMAIN last.previous_schemas
                          /\ last.plans[i].schema_id.view =
                                last.previous_schemas[last.diffs[i].name].schema_view.view_id
                     ELSE \E j \in 1..Len(commits) :
                             /\ onSchema(last.diffs[i].name) = {j}
                             /\ last.plans[i].schema_id.view = Hash(commits[j].entry)

\* Of two schemas with previous views, one has a new description: its
\* plan has the id of the update, the plan of the other the previous id.
C21_Witness ==
    /\ Succeeded
    /\ Len(last.plans) = 2
    /\ Len(last.commits) = 1
    /\ last.commits[1].operation.action = "update"
    /\ \E i, k \in 1..2 :
          /\ last.plans[i].schema_id.view = Hash(last.commits[1].entry)
          /\ last.plans[k].schema_id.name \in DOMAIN last.previous_schemas
          /\ last.plans[k].schema_id.view =
                last.previous_schemas[last.plans[k].schema_id.name].schema_view.view_id

\* C22 (relations embed the current identifier): after execute_plan
\* returned Ok, for every declared schema A and every relation field of A
\* to a schema B, the view of the field that the view of A in the plans
\* lists, a previous view kept or one the run committed, has as its type
\* the relation to the schema id the plans hold for B.
C22_CurrentIdentifier ==
    LET file == last.schema_file
        IdOf(n) == (CHOOSE p \in SeqToSet(last.plans) : p.schema_diff.name = n).schema_id
        names(n) == SortedFieldNames(DOMAIN file[n].fields)
        view(n) == SchemaView(last.store, IdOf(n).view)
    IN  Succeeded =>
            \A A \in DOMAIN file :
                /\ Len(view(A).fields) = Len(names(A))
                /\ \A k \in 1..Len(names(A)) :
                      IsRelation(file[A].fields[names(A)[k]]) =>
                          /\ SchemaFieldView(last.store, view(A).fields[k]).name = names(A)[k]
                          /\ SchemaFieldView(last.store, view(A).fields[k]).field_type =
                                PandaFieldType(file[A].fields[names(A)[k]].type,
                                               IdOf(file[A].fields[names(A)[k]].name))

\* B has a second view since the run before; the relation field of A,
\* which had a view with the first id of B, has one with the second.
C22_Witness ==
    /\ Succeeded
    /\ \E A, B \in DOMAIN last.schema_file \cap DOMAIN last.previous_schemas :
          /\ A # B
          /\ last.schema_file[A].fields = [f \in {"x"} |-> [type |-> "relation", name |-> B]]
          /\ last.previous_schemas[A].schema_field_views[1].field_type =
                PandaFieldType("relation", new_application(B, last.previous_schemas[B].schema_view.view_id))
          /\ \E i \in 1..Len(last.commits) :
                /\ last.commits[i].operation.schema = "schema_field_definition"
                /\ last.commits[i].operation.action = "update"
                /\ last.commits[i].operation.type.schema_id.name = B
                /\ last.commits[i].operation.type.schema_id.view # last.previous_schemas[B].schema_view.view_id

\* C23 (sequential publishing): while execute_plan runs, at most one
\* publish is in flight, the one of the operation after the commits pushed
\* so far; the store shows the entries of the lock file followed by the
\* entries of the pushed commits, in the order of the commit list, which
\* is the order in which the run generates its operations.
C23_SequentialPublishing ==
    /\ Cardinality(execution.in_flight) <= 1
    /\ execution.in_flight \subseteq {Len(execution.commits) + 1}
    /\ execution.commits = SubSeq(execution.operations, 1, Len(execution.commits))
    /\ execution.pc # "none" =>
          execution.store =
              [i \in 1..Len(lock_file) |-> [entry |-> lock_file[i].entry, operation |-> lock_file[i].operation]]
                  \o [i \in 1..Len(execution.commits) |->
                         [entry |-> execution.commits[i].entry, operation |-> execution.commits[i].operation]]

\* The fifth of eight publishes is in flight over a ledger of three
\* commits; the store shows the four before it.
C23_Witness ==
    /\ execution.pc = "await"
    /\ execution.in_flight = {5}
    /\ Len(execution.operations) = 8
    /\ Len(execution.commits) = 4
    /\ Len(lock_file) = 3
    /\ Len(execution.store) = 7

\* C24 (depth-first commit order): in the commits of a run whose
\* execute_plan returned Ok, every commit on a field of a schema S comes
\* before the commit on the schema document of S; and for every relation
\* field of S to a schema T, every commit on T, on its fields and on its
\* schema document, comes before the commit on the relation field.
C24_DepthFirstOrder ==
    LET file == last.schema_file
        commits == last.commits
        IdOf(n) == (CHOOSE p \in SeqToSet(last.plans) : p.schema_diff.name = n).schema_id
        names(n) == SortedFieldNames(DOMAIN file[n].fields)
        view(n) == SchemaView(last.store, IdOf(n).view)
        onDocument(n) == {j \in 1..Len(commits) : Hash(commits[j].entry) = IdOf(n).view}
        onField(n, k) == {i \in 1..Len(commits) : Hash(commits[i].entry) = view(n).fields[k]}
        onFields(n) == UNION {onField(n, k) : k \in 1..Len(names(n))}
    IN  Succeeded =>
            \A S \in DOMAIN file :
                /\ \A i \in onFields(S) : \A j \in onDocument(S) : i < j
                /\ \A k \in 1..Len(names(S)) :
                      IsRelation(file[S].fields[names(S)[k]]) =>
                          \A i \in onFields(file[S].fields[names(S)[k]].name)
                                        \cup onDocument(file[S].fields[names(S)[k]].name) :
                              \A j \in onField(S, k) : i < j

\* S relates to T, both are new: the commits are the field of T, T, the
\* relation field of S, S.
C24_Witness ==
    /\ Succeeded
    /\ Len(last.commits) = 4
    /\ \E S, T \in DOMAIN last.schema_file :
          /\ S # T
          /\ last.schema_file[S].fields = [f \in {"x"} |-> [type |-> "relation", name |-> T]]
          /\ last.commits[2].operation.name = T
          /\ last.commits[3].operation.type.schema_id = new_application(T, Hash(last.commits[2].entry))
          /\ last.commits[4].operation.name = S
          /\ last.commits[4].operation.fields = <<Hash(last.commits[3].entry)>>

\* C25 (schema change detection): in a run whose execute_plan returned Ok,
\* a declared schema with a previous view has an update of its document
\* among the commits if and only if the declared description is not the
\* description of the previous view or the list of the resolved ids of its
\* fields, in the order of the declaration, is not the list of fields of
\* the previous view.  The resolved id of a field is the id of its
\* previous view, the hash of the update the run has on that view, or the
\* hash of the create the run has for it.  The update carries the
\* attributes that differ, and no others; without an update the plans
\* hold the id of the previous view.
C25_SchemaChangeDetection ==
    LET file == last.schema_file
        prev == last.previous_schemas
        commits == last.commits
        op(i) == last.commits[i].operation
        IdOf(n) == (CHOOSE p \in SeqToSet(last.plans) : p.schema_diff.name = n).schema_id
        names(n) == SortedFieldNames(DOMAIN file[n].fields)
        views(n) == IF n \in DOMAIN prev THEN prev[n].schema_field_views ELSE <<>>
        known(n, f) == {v \in 1..Len(views(n)) : views(n)[v].name = f}
        position(n) == CHOOSE i \in 1..Len(last.diffs) : last.diffs[i].name = n
        creates(f) == SelectSeq(commits, LAMBDA c : /\ c.operation.schema = "schema_field_definition"
                                                     /\ c.operation.action = "create"
                                                     /\ c.operation.name = f)
        rank(n, f) == Cardinality({m \in DOMAIN file : /\ position(m) < position(n)
                                                       /\ f \in DOMAIN file[m].fields
                                                       /\ known(m, f) = {}}) + 1
        updated(h) == {i \in 1..Len(commits) : op(i).action = "update" /\ op(i).previous = h}
        resolved(n, f) ==
            IF known(n, f) # {}
            THEN Let(views(n)[CHOOSE v \in known(n, f) : TRUE].id, LAMBDA h :
                     IF updated(h) # {} THEN Hash(commits[CHOOSE i \in updated(h) : TRUE].entry) ELSE h)
            ELSE IF rank(n, f) <= Len(creates(f)) THEN Hash(creates(f)[rank(n, f)].entry) ELSE 0
        field_view_ids(n) == [k \in 1..Len(names(n)) |-> resolved(n, names(n)[k])]
        differing(n) ==
            (IF file[n].description # prev[n].schema_view.description THEN {"description"} ELSE {})
                \cup (IF field_view_ids(n) # prev[n].schema_view.fields THEN {"fields"} ELSE {})
        updates(n) == {i \in 1..Len(commits) :
                          /\ op(i).schema = "schema_definition"
                          /\ DocumentId(last.store, Hash(commits[i].entry))
                                = DocumentId(last.store, prev[n].schema_view.view_id)}
    IN  Succeeded =>
            \A n \in DOMAIN file \cap DOMAIN prev :
                /\ (updates(n) # {}) <=> (differing(n) # {})
                /\ \A i \in updates(n) :
                      /\ updates(n) = {i}
                      /\ op(i).action = "update"
                      /\ op(i).previous = prev[n].schema_view.view_id
                      /\ op(i).attrs = differing(n)
                      /\ "description" \in differing(n) => op(i).description = file[n].description
                      /\ "fields" \in differing(n) => op(i).fields = field_view_ids(n)
                      /\ IdOf(n).view = Hash(commits[i].entry)
                /\ updates(n) = {} => IdOf(n).view = prev[n].schema_view.view_id

\* The type of the one field of a schema has changed, and nothing else
\* of two schemas: the list of the first has as many ids as before, one
\* of them new, and the run has the update of the field and the update of
\* the schema; the second schema has no operation and keeps its id.
C25_Witness ==
    /\ Succeeded
    /\ Len(last.commits) = 2
    /\ last.commits[1].operation.schema = "schema_field_definition"
    /\ last.commits[1].operation.action = "update"
    /\ last.commits[2].operation.schema = "schema_definition"
    /\ last.commits[2].operation.action = "update"
    /\ last.commits[2].operation.attrs = {"fields"}
    /\ last.commits[2].operation.fields = <<Hash(last.commits[1].entry)>>
    /\ \E n \in DOMAIN last.schema_file \cap DOMAIN last.previous_schemas :
          /\ last.commits[2].operation.previous # last.previous_schemas[n].schema_view.view_id
          /\ \E i \in 1..Len(last.plans) :
                last.plans[i].schema_id = new_application(n, last.previous_schemas[n].schema_view.view_id)

\* C26 (field change detection): in a run whose execute_plan returned Ok,
\* a declared field with a previous view has an update of its document
\* among the commits if and only if its resolved type, the declared scalar
\* kind or the declared relation kind with the schema id the plans hold
\* for the linked schema, is not the type of the previous view.  The
\* update follows the previous view and carries the resolved type, and
\* nothing else; a relation field whose linked schema has a new id, and
\* nothing else new, has one.
C26_FieldChangeDetection ==
    LET file == last.schema_file
        prev == last.previous_schemas
        commits == last.commits
        op(i) == last.commits[i].operation
        IdOf(n) == (CHOOSE p \in SeqToSet(last.plans) : p.schema_diff.name = n).schema_id
        views(n) == prev[n].schema_field_views
        current_field_type(n, f) ==
            PandaFieldType(file[n].fields[f].type,
                           IF IsRelation(file[n].fields[f]) THEN IdOf(file[n].fields[f].name) ELSE NoSchemaId)
        onDocument(h) == {i \in 1..Len(commits) :
                             DocumentId(last.store, Hash(commits[i].entry)) = DocumentId(last.store, h)}
    IN  Succeeded =>
            \A n \in DOMAIN file \cap DOMAIN prev : \A v \in 1..Len(views(n)) :
                views(n)[v].name \in DOMAIN file[n].fields =>
                    /\ (onDocument(views(n)[v].id) # {})
                           <=> (views(n)[v].field_type # current_field_type(n, views(n)[v].name))
                    /\ \A i \in onDocument(views(n)[v].id) :
                          /\ onDocument(views(n)[v].id) = {i}
                          /\ op(i).schema = "schema_field_definition"
                          /\ op(i).action = "update"
                          /\ op(i).previous = views(n)[v].id
                          /\ op(i).attrs = {"type"}
                          /\ op(i).type = current_field_type(n, views(n)[v].name)
                          /\ SchemaFieldView(last.store, Hash(commits[i].entry)).name = views(n)[v].name

\* A schema has a relation field with a previous view, the linked schema
\* a scalar field with one; the linked schema has a new description, and
\* the run has the update of the relation field, with the kind and the
\* name its type had and another view, and no commit on the scalar field.
C26_Witness ==
    /\ Succeeded
    /\ Len(last.commits) = 3
    /\ last.commits[1].operation.schema = "schema_definition"
    /\ last.commits[1].operation.attrs = {"description"}
    /\ last.commits[2].operation.schema = "schema_field_definition"
    /\ last.commits[2].operation.action = "update"
    /\ last.commits[3].operation.schema = "schema_definition"
    /\ \E n, t \in DOMAIN last.schema_file \cap DOMAIN last.previous_schemas :
          /\ last.previous_schemas[t].schema_view.view_id = last.commits[1].operation.previous
          /\ Len(last.previous_schemas[t].schema_field_views) = 1
          /\ last.previous_schemas[t].schema_field_views[1].field_type.kind \in FieldType
          /\ Len(last.previous_schemas[n].schema_field_views) = 1
          /\ last.previous_schemas[n].schema_field_views[1].id = last.commits[2].operation.previous
          /\ last.previous_schemas[n].schema_field_views[1].field_type.kind
                = last.commits[2].operation.type.kind
          /\ last.previous_schemas[n].schema_field_views[1].field_type.schema_id.name = t
          /\ last.commits[2].operation.type.schema_id.name = t
          /\ last.previous_schemas[n].schema_field_views[1].field_type.schema_id.view
                = last.previous_schemas[t].schema_view.view_id
          /\ last.commits[2].operation.type.schema_id.view = Hash(last.commits[1].entry)

\* C27 (cascade of changes): in a run whose execute_plan returned Ok, when
\* the run has a commit on a field of a declared schema S that has a
\* previous view, a create or an update, it has after it an update of the
\* document of S that sets the list of fields, and the plans hold for S
\* the hash of that update, not the id of the previous view.  Hence, when
\* a declared schema T has a new id in the run, every declared schema with
\* a previous view that relates to T by name, through one relation field
\* or through a chain of them, has a new id in the run as well.
C27_Cascade ==
    LET file == last.schema_file
        prev == last.previous_schemas
        commits == last.commits
        op(i) == last.commits[i].operation
        IdOf(n) == (CHOOSE p \in SeqToSet(last.plans) : p.schema_diff.name = n).schema_id
        views(n) == IF n \in DOMAIN prev THEN prev[n].schema_field_views ELSE <<>>
        known(n, f) == {v \in 1..Len(views(n)) : views(n)[v].name = f}
        position(n) == CHOOSE i \in 1..Len(last.diffs) : last.diffs[i].name = n
        created(f) == {i \in 1..Len(commits) : /\ op(i).schema = "schema_field_definition"
                                                /\ op(i).action = "create"
                                                /\ op(i).name = f}
        rank(n, f) == Cardinality({m \in DOMAIN file : /\ position(m) < position(n)
                                                       /\ f \in DOMAIN file[m].fields
                                                       /\ known(m, f) = {}}) + 1
        onField(n, f) ==
            IF known(n, f) # {}
            THEN {i \in 1..Len(commits) :
                     op(i).action = "update" /\ \E v \in known(n, f) : op(i).previous = views(n)[v].id}
            ELSE {i \in created(f) : Cardinality({j \in created(f) : j <= i}) = rank(n, f)}
        onFields(n) == UNION {onField(n, f) : f \in DOMAIN file[n].fields}
        New(n) == n \notin DOMAIN prev \/ IdOf(n).view # prev[n].schema_view.view_id
        Relates(s, t) == \E f \in DOMAIN file[s].fields :
                            IsRelation(file[s].fields[f]) /\ file[s].fields[f].name = t
        Chain(s, t) == \/ Relates(s, t)
                       \/ \E u \in DOMAIN file : Relates(s, u) /\ Relates(u, t)
    IN  Succeeded =>
            /\ \A S \in DOMAIN file \cap DOMAIN prev :
                  onFields(S) # {} =>
                      \E j \in 1..Len(commits) :
                          /\ \A i \in onFields(S) : i < j
                          /\ op(j).schema = "schema_definition"
                          /\ op(j).action = "update"
                          /\ op(j).previous = prev[S].schema_view.view_id
                          /\ "fields" \in op(j).attrs
                          /\ \A i \in onFields(S) : Hash(commits[i].entry) \in SeqToSet(op(j).fields)
                          /\ IdOf(S).view = Hash(commits[j].entry)
                          /\ IdOf(S).view # prev[S].schema_view.view_id
            /\ \A S \in DOMAIN file \cap DOMAIN prev : \A T \in DOMAIN file :
                  (Chain(S, T) /\ New(T)) =>
                      /\ New(S)
                      /\ \E j \in 1..Len(commits) :
                            /\ op(j).action = "update"
                            /\ op(j).previous = prev[S].schema_view.view_id
                            /\ IdOf(S).view = Hash(commits[j].entry)

\* Of three schemas with previous views, the first relates to the second
\* and the second to the third; the third has a new description, and the
\* run has five commits: the update of the third, and of the relation
\* field and the document of the second, and of the first.
C27_Witness ==
    /\ Succeeded
    /\ DOMAIN last.schema_file = {"a", "b", "c"}
    /\ DOMAIN last.previous_schemas = {"a", "b", "c"}
    /\ last.schema_file["a"].fields["x"].name = "b"
    /\ last.schema_file["b"].fields["x"].name = "c"
    /\ Len(last.commits) = 5
    /\ last.commits[1].operation.attrs = {"description"}
    /\ last.commits[1].operation.previous = last.previous_schemas["c"].schema_view.view_id
    /\ last.commits[2].operation.previous = last.previous_schemas["b"].schema_field_views[1].id
    /\ last.commits[3].operation.previous = last.previous_schemas["b"].schema_view.view_id
    /\ last.commits[4].operation.previous = last.previous_schemas["a"].schema_field_views[1].id
    /\ last.commits[5].operation.previous = last.previous_schemas["a"].schema_view.view_id
    /\ last.commits[5].operation.attrs = {"fields"}

\* C28 (relation targets are executed before): for the diffs get_diff
\* returned to a run, executed in their order on a new executor, whenever
\* the execution comes to a relation field, the plans of the executor
\* hold an entry with the diff the field embeds: the field takes the
\* schema id of that entry, and FieldDiff::execute never materializes a
\* schema itself.
C28_TargetsExecuted ==
    LET diffs == last.diffs
        store == build_load(last.schema_file, last.before).store
        before(i) == execute_diffs(SubSeq(diffs, 1, i - 1), 1, Executor_new(store, 0))
        executor(i, k) == execute_fields(SubSeq(diffs[i].current_fields, 1, k - 1), 1, before(i), <<>>).ex
        schema(i, k) ==
            find(SelectSeq(executor(i, k).plans,
                           LAMBDA plan : plan.schema_diff = diffs[i].current_fields[k].current_field_type.diff[1]))
    IN  last.executed =>
            \A i \in 1..Len(diffs) : \A k \in 1..Len(diffs[i].current_fields) :
                diffs[i].current_fields[k].current_field_type.tag = "Relation" =>
                    /\ executor(i, k).ok
                    /\ Len(schema(i, k)) = 1
                    /\ schema(i, k)[1].schema_id.name = diffs[i].current_fields[k].current_field_type.diff[1].name
                    /\ FieldDiff_type(diffs[i].current_fields[k], executor(i, k)).ex = executor(i, k)

\* The third of three diffs has two relation fields, to the schemas of
\* the first and the second diff, which has a relation field to the
\* first; the run has the plans of the three, in the order of the diffs.
C28_Witness ==
    /\ Succeeded
    /\ Len(last.diffs) = 3
    /\ Len(last.diffs[3].current_fields) = 2
    /\ last.diffs[3].current_fields[1].current_field_type.tag = "Relation"
    /\ last.diffs[3].current_fields[2].current_field_type.tag = "Relation"
    /\ last.diffs[2].current_fields[1].current_field_type.tag = "Relation"
    /\ last.diffs[2].current_fields[1].current_field_type.diff = <<last.diffs[1]>>
    /\ {last.diffs[3].current_fields[k].current_field_type.diff[1] : k \in 1..2} = {last.diffs[1], last.diffs[2]}
    /\ [i \in 1..3 |-> last.plans[i].schema_diff] = last.diffs

\* C29 (one document per schema name): the lock file, which the confirmed
\* runs of build have written from the empty one, holds at most one
\* create of a schema definition per name.  A run that loaded the lock
\* file has a previous schema for every name the lock file has a create
\* for, declared or not; and a run whose execute_plan returned Ok has no
\* create of a schema definition for a declared name that has a previous
\* schema: its id in the plans is a view of the document the name has.
C29_OneDocumentPerName ==
    LET created(commits) == {i \in 1..Len(commits) : /\ commits[i].operation.schema = "schema_definition"
                                                      /\ commits[i].operation.action = "create"}
        IdOf(n) == (CHOOSE p \in SeqToSet(last.plans) : p.schema_diff.name = n).schema_id
    IN  /\ \A i, j \in created(lock_file) :
              lock_file[i].operation.name = lock_file[j].operation.name => i = j
        /\ last.executed =>
              {last.before[i].operation.name : i \in created(last.before)} = DOMAIN last.previous_schemas
        /\ Succeeded =>
              \A n \in DOMAIN last.schema_file \cap DOMAIN last.previous_schemas :
                  /\ \A i \in created(last.commits) : last.commits[i].operation.name # n
                  /\ \E i \in created(last.before) :
                        /\ last.before[i].operation.name = n
                        /\ DocumentId(last.store, IdOf(n).view) = Hash(last.before[i].entry)

\* The lock file has the documents of three schemas; one of them was
\* taken out of the declaration and is declared again, with a field of
\* another type: the run has the updates of the field and of the schema on
\* the documents the lock file has for them, and the lock file three
\* creates of schema definitions.
C29_Witness ==
    /\ Succeeded
    /\ last.outcome = "written"
    /\ edits = MaxEdits
    /\ DOMAIN last.schema_file = {"a", "b", "c"}
    /\ DOMAIN last.previous_schemas = {"a", "b", "c"}
    /\ Len(last.before) = 6
    /\ last.schema_file["a"] = [description |-> "d1", fields |-> [f \in {"x"} |-> [type |-> "str", name |-> ""]]]
    /\ Len(last.commits) = 2
    /\ last.commits[2].operation.action = "update"
    /\ last.commits[2].operation.previous = last.previous_schemas["a"].schema_view.view_id
    /\ Cardinality({i \in 1..Len(lock_file) : /\ lock_file[i].operation.schema = "schema_definition"
                                              /\ lock_file[i].operation.action = "create"}) = 3

\* C30 (a field that is declared again is a new document): in a run whose
\* execute_plan returned Ok, a declared field of a schema with a previous
\* view is looked up by name among the views of the fields that view
\* lists; for a field that is not among them the run has a create of a
\* new field document, which the new view of the schema lists, also when
\* the store has a document of a field of that name which an earlier view
\* of the schema listed.  A field document that the latest view of no
\* schema lists has no commit in the run, and the latest view of no schema
\* lists it after the run.
C30_FieldDeclaredAgain ==
    LET file == last.schema_file
        prev == last.previous_schemas
        commits == last.commits
        op(i) == last.commits[i].operation
        before == [i \in 1..Len(last.before) |->
                      [entry |-> last.before[i].entry, operation |-> last.before[i].operation]]
        IdOf(n) == (CHOOSE p \in SeqToSet(last.plans) : p.schema_diff.name = n).schema_id
        views(n) == IF n \in DOMAIN prev THEN prev[n].schema_field_views ELSE <<>>
        known(n, f) == {v \in 1..Len(views(n)) : views(n)[v].name = f}
        position(n) == CHOOSE i \in 1..Len(last.diffs) : last.diffs[i].name = n
        created(f) == {i \in 1..Len(commits) : /\ op(i).schema = "schema_field_definition"
                                                /\ op(i).action = "create"
                                                /\ op(i).name = f}
        rank(n, f) == Cardinality({m \in DOMAIN file : /\ position(m) < position(n)
                                                       /\ f \in DOMAIN file[m].fields
                                                       /\ known(m, f) = {}}) + 1
        listed(store) ==
            Let(get_documents_by_schema(store, "schema_definition"), LAMBDA definitions :
                UNION {{DocumentId(store, h) :
                           h \in SeqToSet(DocumentView(store, LatestViewId(store, definitions[i])).fields)} :
                       i \in 1..Len(definitions)})
        orphans(store) == SeqToSet(get_documents_by_schema(store, "schema_field_definition")) \ listed(store)
    IN  Succeeded =>
            /\ last.store = before \o [i \in 1..Len(commits) |->
                                          [entry |-> commits[i].entry, operation |-> commits[i].operation]]
            /\ \A n \in DOMAIN file \cap DOMAIN prev :
                  /\ {views(n)[v].id : v \in 1..Len(views(n))} = SeqToSet(prev[n].schema_view.fields)
                  /\ \A f \in DOMAIN file[n].fields :
                        known(n, f) = {} =>
                            \E i \in created(f) :
                                /\ Cardinality({j \in created(f) : j <= i}) = rank(n, f)
                                /\ Hash(commits[i].entry) \notin StoreHashes(before)
                                /\ Hash(commits[i].entry) \in SeqToSet(SchemaView(last.store, IdOf(n).view).fields)
            /\ \A doc \in orphans(before) :
                  /\ doc \in orphans(last.store)
                  /\ LatestViewId(last.store, doc) = LatestViewId(before, doc)

\* A schema had two fields; the second was taken out of the declaration
\* and a run wrote the update of the schema; the field is declared again,
\* with the type it had: the run has the create of a second document of
\* a field of its name, and the update of the schema with the new id.
C30_Witness ==
    /\ Succeeded
    /\ last.outcome = "written"
    /\ DOMAIN last.schema_file = {"a"}
    /\ last.schema_file["a"].fields = [f \in FieldNames |-> [type |-> "str", name |-> ""]]
    /\ Len(last.before) = 4
    /\ last.before[2].operation.name = "y"
    /\ last.before[2].operation.type = PandaFieldType("str", NoSchemaId)
    /\ last.before[3].operation.fields = <<Hash(last.before[1].entry), Hash(last.before[2].entry)>>
    /\ last.before[4].operation.action = "update"
    /\ last.before[4].operation.fields = <<Hash(last.before[1].entry)>>
    /\ Len(last.commits) = 2
    /\ last.commits[1].operation.action = "create"
    /\ last.commits[1].operation.name = "y"
    /\ last.commits[2].operation.fields = <<Hash(last.before[1].entry), Hash(last.commits[1].entry)>>

\* C31 (written ledgers are replayable): every commit the executor pushed
\* in a run records the hash of its own entry, and so does every commit
\* of the lock file, which the runs of build alone have written: the
\* replay of the lock file publishes all of its commits, and no run ends
\* with the error of an entry hash that does not match.
C31_Replayable ==
    /\ \A i \in 1..Len(last.commits) : last.commits[i].entry_hash = Hash(last.commits[i].entry)
    /\ \A i \in 1..Len(lock_file) : lock_file[i].entry_hash = Hash(lock_file[i].entry)
    /\ replay(<<>>, lock_file, 1).ok
    /\ Len(replay(<<>>, lock_file, 1).store) = Len(lock_file)
    /\ last.outcome # "invalid_lock_file"
    /\ (last.outcome # "none" /\ DOMAIN last.schema_file # {}) => Len(last.store) >= Len(last.before)

\* A run has loaded a lock file of four commits or more, which two
\* earlier runs have written, and has written commits after them.
C31_Witness ==
    /\ Succeeded
    /\ last.outcome = "written"
    /\ Len(last.before) >= 4
    /\ \E i \in 2..Len(last.before) :
          /\ last.before[i].operation.action = "update"
          /\ last.before[i].entry.seq_num = 2
    /\ Len(lock_file) > Len(last.before)
    /\ SubSeq(last.store, 1, Len(last.before)) =
          [i \in 1..Len(last.before) |-> [entry |-> last.before[i].entry, operation |-> last.before[i].operation]]

\* C32 (updates carry what changed, and nothing else): every update among
\* the commits of a run whose execute_plan returned Ok is of one of two
\* kinds.  An update of a schema definition follows the previous view of
\* a declared schema; it has no name; it has the description if and only
\* if the declared description is not the one of the previous view, and
\* the list of fields if and only if the list is not the one of the
\* previous view, and one of the two it has.  An update of a field
\* definition follows the previous view of a declared field and has the
\* type, and nothing else.  The name of a document is the same in every
\* view of it.
C32_UpdatesCarryChanges ==
    LET file == last.schema_file
        prev == last.previous_schemas
        commits == last.commits
        op(i) == last.commits[i].operation
        follows(i) == {n \in DOMAIN file \cap DOMAIN prev : prev[n].schema_view.view_id = op(i).previous}
        kept(n) ==
            /\ [k \in 1..Len(prev[n].schema_field_views) |-> prev[n].schema_field_views[k].name]
                  = SortedFieldNames(DOMAIN file[n].fields)
            /\ \A k \in 1..Len(prev[n].schema_field_views) :
                  LatestViewId(last.store, DocumentId(last.store, prev[n].schema_field_views[k].id))
                      = prev[n].schema_field_views[k].id
    IN  Succeeded =>
            \A i \in 1..Len(commits) :
                op(i).action = "update" =>
                    /\ "name" \notin op(i).attrs
                    /\ op(i).name = ""
                    /\ DocumentView(last.store, Hash(commits[i].entry)).name
                          = DocumentView(last.store, op(i).previous).name
                    /\ op(i).schema = "schema_definition" =>
                          /\ op(i).attrs # {}
                          /\ op(i).attrs \subseteq {"description", "fields"}
                          /\ op(i).type = NoType
                          /\ \E n \in DOMAIN file \cap DOMAIN prev :
                                /\ follows(i) = {n}
                                /\ ("description" \in op(i).attrs)
                                      <=> (file[n].description # prev[n].schema_view.description)
                                /\ "description" \in op(i).attrs => op(i).description = file[n].description
                                /\ "description" \notin op(i).attrs => op(i).description = ""
                                /\ ("fields" \in op(i).attrs) <=> ~kept(n)
                                /\ "fields" \in op(i).attrs => op(i).fields # prev[n].schema_view.fields
                                /\ "fields" \notin op(i).attrs => op(i).fields = <<>>
                    /\ op(i).schema = "schema_field_definition" =>
                          /\ op(i).attrs = {"type"}
                          /\ op(i).description = ""
                          /\ op(i).fields = <<>>
                          /\ op(i).type # NoType
                          /\ \E n \in DOMAIN file \cap DOMAIN prev :
                                \E k \in 1..Len(prev[n].schema_field_views) :
                                    /\ prev[n].schema_field_views[k].id = op(i).previous
                                    /\ prev[n].schema_field_views[k].name \in DOMAIN file[n].fields
                                    /\ prev[n].schema_field_views[k].field_type # op(i).type

\* The three updates of a run: of a schema, with the description alone;
\* of the relation field of another schema to it, with the type; of that
\* schema, with the list of fields alone.
C32_Witness ==
    /\ Succeeded
    /\ Len(last.commits) = 3
    /\ \A i \in 1..3 : last.commits[i].operation.action = "update"
    /\ last.commits[1].operation.attrs = {"description"}
    /\ last.commits[1].operation.fields = <<>>
    /\ last.commits[2].operation.attrs = {"type"}
    /\ last.commits[3].operation.attrs = {"fields"}
    /\ last.commits[3].operation.description = ""
    /\ last.commits[3].operation.fields = <<Hash(last.commits[2].entry)>>

\* C33 (inspect mode and empty plans leave the ledger alone): a run in
\* inspect mode that came to show its plan leaves the lock file with the
\* commits it loaded, whatever commits it generated, and asks for no
\* confirmation; a run whose execute_plan returned Ok without a commit
\* ends in inspect mode or with "no changes", asks for no confirmation
\* and leaves the lock file as loaded.  Neither writes the lock file: one
\* that was not there, which the run loaded as without commits, is not
\* there after the run.
C33_InspectAndEmptyPlans ==
    /\ last.outcome = "inspected" =>
          /\ Succeeded
          /\ ~last.confirmed
          /\ last.lock_file = last.before
          /\ lock_file = last.before
    /\ (Succeeded /\ last.commits = <<>>) =>
          /\ last.outcome \in {"inspected", "no_changes"}
          /\ ~last.confirmed
          /\ last.lock_file = last.before
          /\ lock_file = last.before
    /\ last.outcome = "no_changes" => (Succeeded /\ last.commits = <<>>)
    /\ (last.outcome \in {"inspected", "no_changes"} /\ last.before = <<>>) => lock_file = <<>>

\* A run in inspect mode, with no lock file yet, has generated six
\* commits or more; there is no lock file after it.
C33_Witness ==
    /\ last.outcome = "inspected"
    /\ last.before = <<>>
    /\ Len(last.commits) >= 6
    /\ Len(last.plans) = 3
    /\ lock_file = <<>>

\* C34 (relations by schema id add no ordering constraint): get_diff ends
\* with the error of a cyclic dependency if and only if the relations by
\* name alone have a cycle, and with a panic if and only if they have none
\* and a relation by name links to a schema that is not declared; the
\* relations by schema id count in neither, whatever name their ids have.
\* In the diffs get_diff returns, the target of every relation by name
\* comes before the schema of the field, and the field diff of a relation
\* by schema id has the id as the file gives it, and no schema diff.
C34_ExternalRelations ==
    LET file == last.schema_file
        byName(n) == {f \in DOMAIN file[n].fields :
                         file[n].fields[f].type \in RelationType /\ "id" \notin DOMAIN file[n].fields[f]}
        byId(n) == {f \in DOMAIN file[n].fields : "id" \in DOMAIN file[n].fields[f]}
        links(n) == {file[n].fields[f].name : f \in byName(n)}
        cyclic == \E S \in SUBSET DOMAIN file : S # {} /\ \A n \in S : links(n) \cap S # {}
        undeclared == \E n \in DOMAIN file : ~(links(n) \subseteq DOMAIN file)
        names(n) == SortedFieldNames(DOMAIN file[n].fields)
        position(n) == CHOOSE i \in 1..Len(last.diffs) : last.diffs[i].name = n
    IN  last.outcome # "none" =>
            /\ last.outcome \in {"ok", "cyclic", "panic"}
            /\ (last.outcome = "cyclic") <=> cyclic
            /\ (last.outcome = "panic") <=> (~cyclic /\ undeclared)
            /\ last.outcome = "ok" =>
                  /\ Len(last.diffs) = Cardinality(DOMAIN file)
                  /\ {last.diffs[i].name : i \in 1..Len(last.diffs)} = DOMAIN file
                  /\ \A n \in DOMAIN file :
                        /\ \A t \in links(n) : position(t) < position(n)
                        /\ Len(last.diffs[position(n)].current_fields) = Len(names(n))
                        /\ \A k \in 1..Len(names(n)) :
                              LET field == file[n].fields[names(n)[k]]
                                  diff == last.diffs[position(n)].current_fields[k]
                              IN  /\ diff.name = names(n)[k]
                                  /\ names(n)[k] \in byId(n) =>
                                        /\ diff.current_field_type.tag = "ExternalRelation"
                                        /\ diff.current_field_type.type = field.type
                                        /\ diff.current_field_type.schema_id = field.id
                                        /\ diff.current_field_type.diff = <<>>
                                  /\ names(n)[k] \in byName(n) =>
                                        /\ diff.current_field_type.tag = "Relation"
                                        /\ diff.current_field_type.diff = <<last.diffs[position(field.name)]>>
                                  /\ names(n)[k] \notin byId(n) \cup byName(n) =>
                                        diff.current_field_type.tag = "Field"

\* Schema a has a relation by schema id to a schema of the name b, and a
\* relation by schema id to a schema of its own name; schema b has a
\* relation by name to a: get_diff returns the diff of a, then of b.
C34_Witness ==
    /\ last.outcome = "ok"
    /\ DOMAIN last.schema_file = {"a", "b"}
    /\ last.schema_file["a"].fields =
          [f \in FieldNames |-> [type |-> "relation", name |-> "",
                                 id |-> IF f = "x" THEN [name |-> "b", view |-> 91]
                                        ELSE [name |-> "a", view |-> 90]]]
    /\ last.schema_file["b"].fields = [f \in {"x"} |-> [type |-> "relation", name |-> "a"]]
    /\ Len(last.diffs) = 2
    /\ last.diffs[1].name = "a"
    /\ last.diffs[1].current_fields[1].current_field_type.schema_id = [name |-> "b", view |-> 91]
    /\ last.diffs[2].current_fields[1].current_field_type.diff = <<last.diffs[1]>>

\* C35 (invalid stored commits end the replay): a run that loads a lock
\* file in which the operation of a commit is of a schema that is not
\* version 1 of the schema definition or of the schema field definition
\* ends in get_previous_schemas, at the first such commit: the store holds
\* the commits before it and none from it on, no diff is computed, no
\* operation built, and the lock file is left as it is.  (A run on an
\* empty schema.toml ends before it comes to get_previous_schemas.)
C35_InvalidCommits ==
    LET before == last.before
        invalid == {i \in 1..Len(before) :
                       before[i].operation.schema \notin {"schema_definition", "schema_field_definition"}}
    IN  /\ (last.outcome # "none" /\ DOMAIN last.schema_file # {} /\ invalid # {}) =>
              /\ last.outcome = "invalid_lock_file"
              /\ ~last.executed
              /\ Len(last.store) + 1 \in invalid
              /\ \A i \in invalid : Len(last.store) < i
              /\ \A i \in 1..Len(last.store) :
                    last.store[i] = [entry |-> before[i].entry, operation |-> before[i].operation]
              /\ last.diffs = <<>>
              /\ last.plans = <<>>
              /\ last.commits = <<>>
              /\ lock_file = before
        /\ (last.outcome = "invalid_lock_file") => invalid # {}

\* The third of four commits has an operation of version 2 of the schema
\* field definition: the run ends with the first two commits in its
\* store, and without the fourth.
C35_Witness ==
    /\ last.outcome = "invalid_lock_file"
    /\ Len(last.before) = 4
    /\ last.before[3].operation.schema = "schema_field_definition_v2"
    /\ last.before[4].operation.schema = "schema_definition"
    /\ Len(last.store) = 2

\* C36 (deployment order, stop on failure): deploy handles the commits of
\* the lock file in their order, one each turn, and the node gets the
\* published ones in that order; when a publish request fails deploy
\* returns the error, and the commit is the last one handled: no query
\* and no publish follows for a later commit.  On a lock file without
\* commits deploy returns an error before it handles any.
C36_DeploymentOrder ==
    LET handled == deployment.handled
        published == SelectSeq(handled, LAMBDA turn : turn.result = "published")
    IN  /\ deployment.status # "none" => deployment.commits = lock_file
        /\ Len(handled) <= Len(deployment.commits)
        /\ \A k \in 1..Len(handled) : handled[k].commit = deployment.commits[k]
        /\ deployment.node = [j \in 1..Len(published) |-> published[j].commit]
        /\ \A k \in 1..Len(handled) :
              handled[k].result = "request_failed" =>
                  /\ k = Len(handled)
                  /\ deployment.status = "request_failed"
                  /\ deployment.i = k
                  /\ \A j \in k..Len(deployment.commits) : deployment.commits[j] \notin SeqToSet(deployment.node)
        /\ deployment.status = "request_failed" =>
              (handled # <<>> /\ handled[Len(handled)].result = "request_failed")
        /\ deployment.status = "running" => deployment.i = Len(handled) + 1
        /\ deployment.status = "done" => Len(handled) = Len(deployment.commits)
        /\ (deployment.status # "none" /\ lock_file = <<>>) =>
              /\ deployment.status = "no_data"
              /\ handled = <<>>
              /\ deployment.node = <<>>
        /\ deployment.status = "no_data" => lock_file = <<>>

\* The publish of the second of three commits has failed, after the first
\* was published: deploy has returned the error, and the third commit was
\* not handled.
C36_Witness ==
    /\ deployment.status = "request_failed"
    /\ Len(deployment.commits) = 3
    /\ Len(deployment.handled) = 2
    /\ deployment.handled[1].result = "published"
    /\ deployment.handled[2].result = "request_failed"
    /\ deployment.handled[2].commit = deployment.commits[2]
    /\ deployment.node = <<deployment.commits[1]>>

\* C37 (a failed nextArgs query falls through to the publish): when the
\* nextArgs query for a commit returned an error, the commit is not
\* skipped and deploy does not return the inconsistency error for it: the
\* publish request for the commit is sent, and the node has the commit
\* when the request went through.  The commits counted as skipped are
\* commits the node answered the query for.
C37_QueryFailureFallsThrough ==
    LET handled == deployment.handled
    IN  /\ \A k \in 1..Len(handled) :
              ~handled[k].response.ok =>
                  /\ handled[k].result \in {"published", "request_failed"}
                  /\ handled[k].result = "published" => handled[k].commit \in SeqToSet(deployment.node)
                  /\ handled[k].result = "request_failed" =>
                        (k = Len(handled) /\ deployment.status = "request_failed")
                  /\ deployment.status # "inconsistent" \/ k < Len(handled)
        /\ deployment.skipped = Cardinality({k \in 1..Len(handled) :
                                                handled[k].response.ok /\ handled[k].result = "skipped"})
        /\ deployment.skipped = Cardinality({k \in 1..Len(handled) : handled[k].result = "skipped"})

\* The nextArgs queries for the three commits of a lock file have all
\* failed, and the three commits are on the node.
C37_Witness ==
    /\ deployment.status = "done"
    /\ Len(deployment.handled) = 3
    /\ \A k \in 1..3 : ~deployment.handled[k].response.ok
    /\ deployment.skipped = 0
    /\ deployment.node = deployment.commits

\* C38 (init never overwrites): in every call of init, whatever calls
\* and changes of the operator came before, the entries the directory had
\* are the entries it has afterwards, unchanged: a private-key file and a
\* schema file that exist are left as they are.  What the call adds is the
\* private-key file or the schema file, each where none existed, the
\* schema file as the template of a valid name.  Called on a directory
\* that does not exist, init fails and leaves no directory and no file.
C38_InitNeverOverwrites ==
    LET run == target_dir.run
        added == DOMAIN run.after.entries \ DOMAIN run.before.entries
    IN  run.outcome # "none" =>
            /\ \A path \in DOMAIN run.before.entries :
                  /\ path \in DOMAIN run.after.entries
                  /\ run.after.entries[path] = run.before.entries[path]
            /\ added \subseteq {<<PRIVATE_KEY_FILE_NAME>>, <<SCHEMA_FILE_NAME>>}
            /\ \A path \in added : ~Path_exists(run.before, path)
            /\ <<SCHEMA_FILE_NAME>> \in added =>
                  /\ validate_name(run.schema_name.name)
                  /\ run.after.entries[<<SCHEMA_FILE_NAME>>] =
                        File(SchemaTemplate(run.schema_name.name), "0644")
            /\ run.after.exists = run.before.exists
            /\ ~run.before.exists =>
                  /\ run.outcome = "no_target_dir"
                  /\ run.after.entries = <<>>
            /\ run.outcome = "no_target_dir" => ~run.before.exists

\* The third call of init, on a directory that has a private key and a
\* schema file the operator has edited since an earlier call wrote it: the
\* call returns Ok and the two files are as they were.
C38_Witness ==
    LET run == target_dir.run
    IN  /\ target_dir.calls = 3
        /\ run.outcome = "ok"
        /\ DOMAIN run.before.entries = {<<PRIVATE_KEY_FILE_NAME>>, <<SCHEMA_FILE_NAME>>}
        /\ run.before.entries[<<PRIVATE_KEY_FILE_NAME>>].kind = "file"
        /\ \E n \in SchemaNames :
              /\ DOMAIN run.before.entries[<<SCHEMA_FILE_NAME>>].content = {n}
              /\ run.before.entries[<<SCHEMA_FILE_NAME>>].content[n].description \in Descriptions
              /\ run.schema_name = [tag |-> "Some", name |-> CHOOSE o \in SchemaNames : o # n]
        /\ run.after = run.before
        /\ target_dir.entries = run.after.entries

====
